---- MODULE Spec2Model ----
(***************************************************************************)
(* Model of archive-diff: HashRecord listings, the ordered merge of        *)
(* compute_listing_diff, the prefix trie of find_common_prefix and         *)
(* strip_prefix_from_records, compute_diff_impl, the diff tree and the     *)
(* statistics of an ArchiveDiff, FileHasher.compute_hash, the format       *)
(* handlers and the two dispatch loops, compute_diff, the equality of      *)
(* HashRecord and DiffPrinter.print_diff.                                  *)
(*                                                                         *)
(* Strings that are compared by the program (path segments, relpath) are   *)
(* sequences of character codes, so that Python's str and list orderings   *)
(* are computed and not assumed.  Digests of listings are opaque values.   *)
(***************************************************************************)
EXTENDS Integers, Sequences, FiniteSets, TLC

VARIABLES in1, in2, listing1, listing2, records, i, j, pc, prefix, stripped, err

\* build_diff_tree and ArchiveDiff.stats: the tree returned, the counts returned
VARIABLES tree, counts

treeVars == <<tree, counts>>

\* FileHasher: whether hashlib knows hash_algorithm, hash_buffer_size; one call
\* of compute_hash: the bytes of input_io, its read position, the state of the
\* digest object, the bytes handed to digest.update, the length of each chunk
\* that read returned, the hex string returned
VARIABLES algo_ok, hash_buffer_size, stream, pos, digest, fed, reads, hexd

hashVars == <<algo_ok, hash_buffer_size, stream, pos, digest, fed, reads, hexd>>

\* ArchiveDiffer.compute_diff_impl: the field keep_prefix, the locals prefix1
\* and prefix2, the fields prefix_left and prefix_right of the ArchiveDiff
\* returned
VARIABLES keep_prefix, prefix1, prefix2, prefix_left, prefix_right

implVars == <<keep_prefix, prefix1, prefix2, prefix_left, prefix_right>>

\* The file system and the archive handlers: whether py7zr can be imported;
\* the file system below '/', the working directory, the path handed in; the
\* formats the file at the path is recognised as and its declared members;
\* whether a directory scan reports names in descending order;
\* the entry point called, the handler selected, the position of the loop
\* over the handlers, the handlers whose check_file was called, the handlers
\* whose compute_listing was called, whether the archive (or the directory)
\* was opened, the number of calls of compute_hash, what the generator still
\* has to yield, the records yielded, the list compute_hash_listing returns
VARIABLES have7z, fs, cwd, path, sigs, members, scan_down, mode, handler,
          hidx, checked, consulted, opened, hashes, pending, out, hash_listing

lstVars == <<have7z, fs, cwd, path, sigs, members, scan_down, mode, handler,
             hidx, checked, consulted, opened, hashes, pending, out, hash_listing>>

\* ArchiveDiffer.compute_diff: what the listing of the left and of the right
\* archive yields before compute_hash_listing filters it
VARIABLES raw1, raw2

cmpVars == <<raw1, raw2>>

\* HashRecord.__eq__: the two operands and the value returned
VARIABLES lhs, rhs, eq

eqVars == <<lhs, rhs, eq>>

\* DiffPrinter: the fields suppress_common_lines, quiet and tree; one call of
\* print_diff: the local counts_per_state (a defaultdict: the keys touched so
\* far), the lines written to the output
VARIABLES suppress_common_lines, quiet, tree_mode, counts_per_state, printed

printVars == <<suppress_common_lines, quiet, tree_mode, counts_per_state, printed>>

\* the comparison of two archives, of two records, and the printer
moreVars == <<cmpVars, eqVars, printVars>>

\* the state of the operations other than the merge and the prefix resolver
ext == <<treeVars, hashVars, implVars, lstVars, moreVars>>

\* what the operations of one part leave alone
exceptTree == <<hashVars, implVars, lstVars, moreVars>>
exceptHash == <<treeVars, implVars, lstVars, moreVars>>
exceptImpl == <<treeVars, hashVars, lstVars, moreVars>>
exceptLst == <<treeVars, implVars, moreVars>>
exceptPrint == <<treeVars, hashVars, lstVars, cmpVars, eqVars>>
exceptEq == <<treeVars, hashVars, implVars, lstVars, cmpVars, printVars>>

\* the variables of the merge and of the prefix resolver, pc and err apart
diffVars == <<in1, in2, listing1, listing2, records, i, j, prefix, stripped>>

\* no merge and no prefix resolution under way
DiffIdle ==
  /\ in1 = <<>>
  /\ in2 = <<>>
  /\ listing1 = <<>>
  /\ listing2 = <<>>
  /\ records = <<>>
  /\ i = 0
  /\ j = 0
  /\ prefix = <<>>
  /\ stripped = <<>>

vars == <<in1, in2, listing1, listing2, records, i, j, pc, prefix, stripped, err, ext>>

\* no tree built, no counts taken
TreeIdle ==
  /\ tree = [kind |-> "dir", name |-> <<>>, all_equal |-> TRUE, children |-> <<>>]
  /\ counts = [s \in {"EQUAL", "DIFFERENT", "ONLY_LEFT", "ONLY_RIGHT"} |-> 0]

\* a FileHasher of a known algorithm, compute_hash not called
HashIdle ==
  /\ algo_ok = TRUE
  /\ hash_buffer_size = 1
  /\ stream = <<>>
  /\ pos = 0
  /\ digest = 0
  /\ fed = <<>>
  /\ reads = <<>>
  /\ hexd = <<>>

\* compute_diff_impl not called
ImplIdle ==
  /\ keep_prefix = FALSE
  /\ prefix1 = <<>>
  /\ prefix2 = <<>>
  /\ prefix_left = <<>>
  /\ prefix_right = <<>>

\* no handler constructed, an empty file system
LstIdle ==
  /\ have7z = FALSE
  /\ fs = [q \in {} |-> "dir"]
  /\ cwd = <<>>
  /\ path = [abs |-> TRUE, parts |-> <<>>]
  /\ sigs = {}
  /\ members = <<>>
  /\ scan_down = FALSE
  /\ mode = "none"
  /\ handler = "none"
  /\ hidx = 0
  /\ checked = <<>>
  /\ consulted = <<>>
  /\ opened = FALSE
  /\ hashes = 0
  /\ pending = <<>>
  /\ out = <<>>
  /\ hash_listing = <<>>

\* compute_diff not called
CmpIdle ==
  /\ raw1 = <<>>
  /\ raw2 = <<>>

\* no two records compared
EqIdle ==
  /\ lhs = [hash |-> "None", path_parts |-> <<>>, relpath |-> <<>>]
  /\ rhs = [hash |-> "None", path_parts |-> <<>>, relpath |-> <<>>]
  /\ eq = FALSE

\* a DiffPrinter of the default arguments, print_diff not called
PrintIdle ==
  /\ suppress_common_lines = FALSE
  /\ quiet = FALSE
  /\ tree_mode = FALSE
  /\ counts_per_state = [s \in {} |-> 0]
  /\ printed = <<>>

MoreIdle == CmpIdle /\ EqIdle /\ PrintIdle

ExtIdle == TreeIdle /\ HashIdle /\ ImplIdle /\ LstIdle /\ MoreIdle

(***************************************************************************)
(* Bounds of the model.                                                    *)
(***************************************************************************)
\* total number of records of the two listings handed to the merge
MaxRecords == 3
\* number of segments of a path handed to the merge
MaxDepth == 2
\* number of records of the listing handed to the prefix resolver
MaxPrefixLen == 3
\* number of segments of a path handed to the prefix resolver
MaxPrefixDepth == 3

(***************************************************************************)
(* Characters and strings.                                                 *)
(***************************************************************************)
\* ord('/'), the separator of '/'.join
Slash == 47

\* the segments "a" and "a-" ('-' is 45 and sorts before '/')
SegA == <<97>>
SegADash == <<97, 45>>
Segs == {SegA, SegADash}

None == "None"

\* digest values as handed to the HashRecord constructor
HashInputs == {None, "h1", "H1", "h2"}

\* str.lower on the digest values of the model
Lower(h) == IF h = "H1" THEN "h1" ELSE h

\* Python's < on str: lexicographic by code point, a proper prefix is smaller
StrLess(s, t) ==
  \E k \in 1..Len(t) :
     /\ \A m \in 1..(k - 1) : m <= Len(s) /\ s[m] = t[m]
     /\ (k > Len(s) \/ s[k] < t[k])

\* Python's < on list of str: lexicographic, elements compared as str
ListLess(p, q) ==
  \E k \in 1..Len(q) :
     /\ \A m \in 1..(k - 1) : m <= Len(p) /\ p[m] = q[m]
     /\ (k > Len(p) \/ StrLess(p[k], q[k]))

\* '/'.join(parts)
RECURSIVE Join(_)
Join(parts) ==
  IF parts = <<>> THEN <<>>
  ELSE IF Len(parts) = 1 THEN parts[1]
  ELSE Join(SubSeq(parts, 1, Len(parts) - 1)) \o <<Slash>> \o parts[Len(parts)]

(***************************************************************************)
(* HashRecord and DiffRecord.                                              *)
(***************************************************************************)
\* HashRecord.__init__ with a list of segments as relpath
HashRecord(hash_value, parts) ==
  [hash |-> IF hash_value # None THEN Lower(hash_value) ELSE None,
   path_parts |-> parts,
   relpath |-> Join(parts)]

DiffRecord(relpath, result) == [relpath |-> relpath, result |-> result]

DiffState == {"EQUAL", "DIFFERENT", "ONLY_LEFT", "ONLY_RIGHT"}

\* the non-empty paths of at most d segments
PathsUpTo(d) == UNION {[1..n -> Segs] : n \in 1..d}

RecordsUpTo(d) == {HashRecord(h, p) : h \in HashInputs, p \in PathsUpTo(d)}

\* the listings of at most n records
ListingsUpTo(R, n) == UNION {[1..m -> R] : m \in 0..n}

(***************************************************************************)
(* list.sort(key=lambda x: x.path_parts): stable, ascending by path_parts. *)
(***************************************************************************)
RECURSIVE InsertSorted(_, _)
InsertSorted(s, x) ==
  IF s = <<>> THEN <<x>>
  ELSE IF ListLess(x.path_parts, s[Len(s)].path_parts)
       THEN InsertSorted(SubSeq(s, 1, Len(s) - 1), x) \o <<s[Len(s)]>>
       ELSE s \o <<x>>

\* the listing left in the order supplied
SortOmitted(lst) == lst

RECURSIVE SortByPathParts(_)
SortByPathParts(lst) ==
  IF lst = <<>> THEN <<>>
  ELSE InsertSorted(SortByPathParts(SubSeq(lst, 1, Len(lst) - 1)), lst[Len(lst)])

(***************************************************************************)
(* compute_listing_diff: the loop bodies.  Cursors are 0-based as in the   *)
(* source; l[k + 1] is the source's l[k].                                  *)
(***************************************************************************)
\* the first loop comparing two different paths by their length only
MergeBodyByLength(l1, l2, ci, cj, recs) ==
  LET v1 == l1[ci + 1]
      v2 == l2[cj + 1]
  IN IF v1.relpath = v2.relpath
     THEN [i |-> ci + 1, j |-> cj + 1,
           records |-> Append(recs, DiffRecord(v1.relpath,
                          IF v1.hash = v2.hash THEN "EQUAL" ELSE "DIFFERENT"))]
     ELSE IF Len(v1.relpath) <= Len(v2.relpath)
     THEN [i |-> ci + 1, j |-> cj,
           records |-> Append(recs, DiffRecord(v1.relpath, "ONLY_LEFT"))]
     ELSE [i |-> ci, j |-> cj + 1,
           records |-> Append(recs, DiffRecord(v2.relpath, "ONLY_RIGHT"))]

\* the first loop with the last branch leaving both cursors where they are
MergeBodyRightStays(l1, l2, ci, cj, recs) ==
  LET v1 == l1[ci + 1]
      v2 == l2[cj + 1]
  IN IF v1.relpath = v2.relpath
     THEN [i |-> ci + 1, j |-> cj + 1,
           records |-> Append(recs, DiffRecord(v1.relpath,
                          IF v1.hash = v2.hash THEN "EQUAL" ELSE "DIFFERENT"))]
     ELSE IF StrLess(v1.relpath, v2.relpath)
     THEN [i |-> ci + 1, j |-> cj,
           records |-> Append(recs, DiffRecord(v1.relpath, "ONLY_LEFT"))]
     ELSE [i |-> ci, j |-> cj,
           records |-> Append(recs, DiffRecord(v2.relpath, "ONLY_RIGHT"))]

\* the first loop with two digest-less records of one path taken as different
MergeBodyDirsDiffer(l1, l2, ci, cj, recs) ==
  LET v1 == l1[ci + 1]
      v2 == l2[cj + 1]
  IN IF v1.relpath = v2.relpath
     THEN [i |-> ci + 1, j |-> cj + 1,
           records |-> Append(recs, DiffRecord(v1.relpath,
                          IF v1.hash = v2.hash /\ v1.hash # None
                          THEN "EQUAL" ELSE "DIFFERENT"))]
     ELSE IF StrLess(v1.relpath, v2.relpath)
     THEN [i |-> ci + 1, j |-> cj,
           records |-> Append(recs, DiffRecord(v1.relpath, "ONLY_LEFT"))]
     ELSE [i |-> ci, j |-> cj + 1,
           records |-> Append(recs, DiffRecord(v2.relpath, "ONLY_RIGHT"))]

\* the three-way branch of the first while loop
MergeBody(l1, l2, ci, cj, recs) ==
  LET v1 == l1[ci + 1]
      v2 == l2[cj + 1]
  IN IF v1.relpath = v2.relpath
     THEN [i |-> ci + 1, j |-> cj + 1,
           records |-> Append(recs, DiffRecord(v1.relpath,
                          IF v1.hash = v2.hash THEN "EQUAL" ELSE "DIFFERENT"))]
     ELSE IF StrLess(v1.relpath, v2.relpath)
     THEN [i |-> ci + 1, j |-> cj,
           records |-> Append(recs, DiffRecord(v1.relpath, "ONLY_LEFT"))]
     ELSE [i |-> ci, j |-> cj + 1,
           records |-> Append(recs, DiffRecord(v2.relpath, "ONLY_RIGHT"))]

\* the body of the second while loop
DrainLeftBody(l1, ci, cj, recs) ==
  [i |-> ci + 1, j |-> cj,
   records |-> Append(recs, DiffRecord(l1[ci + 1].relpath, "ONLY_LEFT"))]

\* the body of the third while loop
DrainRightBody(l2, ci, cj, recs) ==
  [i |-> ci, j |-> cj + 1,
   records |-> Append(recs, DiffRecord(l2[cj + 1].relpath, "ONLY_RIGHT"))]

\* the three loops run to their end on sorted listings
RECURSIVE MergeLoops(_, _, _, _, _)
MergeLoops(l1, l2, ci, cj, recs) ==
  IF ci < Len(l1) /\ cj < Len(l2)
  THEN LET s == MergeBody(l1, l2, ci, cj, recs)
       IN MergeLoops(l1, l2, s.i, s.j, s.records)
  ELSE IF ci < Len(l1)
  THEN LET s == DrainLeftBody(l1, ci, cj, recs)
       IN MergeLoops(l1, l2, s.i, s.j, s.records)
  ELSE IF cj < Len(l2)
  THEN LET s == DrainRightBody(l2, ci, cj, recs)
       IN MergeLoops(l1, l2, s.i, s.j, s.records)
  ELSE recs

\* compute_listing_diff as a function of its two arguments
compute_listing_diff(l1, l2) ==
  MergeLoops(SortByPathParts(l1), SortByPathParts(l2), 0, 0, <<>>)

(***************************************************************************)
(* The call compute_listing_diff(listing1, listing2), statement by         *)
(* statement.  in1 and in2 keep the listings as the caller supplied them.  *)
(***************************************************************************)
DiffInit ==
  /\ \E n1 \in 0..MaxRecords :
       \E n2 \in 0..(MaxRecords - n1) :
         /\ in1 \in [1..n1 -> RecordsUpTo(MaxDepth)]
         /\ in2 \in [1..n2 -> RecordsUpTo(MaxDepth)]
  /\ listing1 = in1
  /\ listing2 = in2
  /\ records = <<>>
  /\ i = 0
  /\ j = 0
  /\ pc = "start"
  /\ prefix = <<>>
  /\ stripped = <<>>
  /\ err = "none"
  /\ ExtIdle

\* lines 321-328: both sorts (in place), records = [], i, j = 0, 0
SortListings ==
  /\ pc = "start"
  /\ listing1' = SortByPathParts(listing1)
  /\ listing2' = SortByPathParts(listing2)
  /\ records' = <<>>
  /\ i' = 0
  /\ j' = 0
  /\ pc' = "merge"
  /\ UNCHANGED <<in1, in2, prefix, stripped, err, ext>>

\* lines 329-341: one iteration of the first loop
MergeStep ==
  /\ pc = "merge"
  /\ i < Len(listing1) /\ j < Len(listing2)
  /\ LET s == MergeBody(listing1, listing2, i, j, records)
     IN /\ i' = s.i
        /\ j' = s.j
        /\ records' = s.records
  /\ UNCHANGED <<in1, in2, listing1, listing2, pc, prefix, stripped, err, ext>>

\* lines 344-346: the first loop has ended; one iteration of the second
DrainLeft ==
  /\ pc \in {"merge", "drain_left"}
  /\ ~(pc = "merge" /\ i < Len(listing1) /\ j < Len(listing2))
  /\ i < Len(listing1)
  /\ LET s == DrainLeftBody(listing1, i, j, records)
     IN /\ i' = s.i
        /\ j' = s.j
        /\ records' = s.records
  /\ pc' = "drain_left"
  /\ UNCHANGED <<in1, in2, listing1, listing2, prefix, stripped, err, ext>>

\* lines 347-349: the second loop has ended; one iteration of the third
DrainRight ==
  /\ pc \in {"merge", "drain_left", "drain_right"}
  /\ ~(pc = "merge" /\ i < Len(listing1) /\ j < Len(listing2))
  /\ ~(pc \in {"merge", "drain_left"} /\ i < Len(listing1))
  /\ j < Len(listing2)
  /\ LET s == DrainRightBody(listing2, i, j, records)
     IN /\ i' = s.i
        /\ j' = s.j
        /\ records' = s.records
  /\ pc' = "drain_right"
  /\ UNCHANGED <<in1, in2, listing1, listing2, prefix, stripped, err, ext>>

\* line 351: return records
Return ==
  /\ pc \in {"merge", "drain_left", "drain_right"}
  /\ ~(pc = "merge" /\ i < Len(listing1) /\ j < Len(listing2))
  /\ ~(pc \in {"merge", "drain_left"} /\ i < Len(listing1))
  /\ ~(j < Len(listing2))
  /\ pc' = "done"
  /\ UNCHANGED <<in1, in2, listing1, listing2, records, i, j, prefix, stripped, err, ext>>

Next == SortListings \/ MergeStep \/ DrainLeft \/ DrainRight \/ Return

Spec == DiffInit /\ [][Next]_vars

(***************************************************************************)
(* find_common_prefix.  The dict-of-dicts trie is a function from the      *)
(* paths of its nodes to "dir" (a dict value) or "file" (the value         *)
(* '__file__'); the root dict is the empty path and is not in the domain.  *)
(***************************************************************************)
IsPrefixOf(p, q) == Len(p) <= Len(q) /\ SubSeq(q, 1, Len(p)) = p

EmptyTree == [q \in {} |-> "dir"]

\* the cursor `tree` is the str '__file__' and not a dict
IsStrNode(T, c) == c # <<>> /\ T[c] = "file"

\* tree[key] = value: the old value at the key, with all below it, is replaced
SetItem(T, c, key, value) ==
  LET k == Append(c, key)
      keep == {q \in DOMAIN T : ~IsPrefixOf(k, q)} \cup {k}
  IN [q \in keep |-> IF q = k THEN value ELSE T[q]]

\* lines 359-363: `for part in parts`, from the cursor c.  On a str cursor
\* both `tree[part] = {}` and `tree = tree[part]` raise TypeError, and
\* nothing catches it.
RECURSIVE WalkParts(_, _, _)
WalkParts(T, c, parts) ==
  IF parts = <<>> THEN [err |-> "none", tree |-> T, cur |-> c]
  ELSE IF IsStrNode(T, c) THEN [err |-> "TypeError", tree |-> T, cur |-> c]
  ELSE LET k == Append(c, Head(parts))
           T1 == IF k \in DOMAIN T THEN T ELSE SetItem(T, c, Head(parts), "dir")
       IN WalkParts(T1, k, Tail(parts))

\* lines 357-370: the loop body for one record
InsertRecord(T, record) ==
  LET pp == record.path_parts
      parts == IF record.hash = None THEN pp ELSE SubSeq(pp, 1, Len(pp) - 1)
      w == WalkParts(T, <<>>, parts)
  IN IF w.err # "none" THEN [err |-> w.err, tree |-> w.tree]
     ELSE IF record.hash = None THEN [err |-> "none", tree |-> w.tree]
     ELSE IF IsStrNode(w.tree, w.cur)
          THEN [err |-> "ValueError", tree |-> w.tree]
          ELSE [err |-> "none", tree |-> SetItem(w.tree, w.cur, pp[Len(pp)], "file")]

\* lines 355-370: `for record in lst`
RECURSIVE BuildTree(_, _)
BuildTree(T, lst) ==
  IF lst = <<>> THEN [err |-> "none", tree |-> T]
  ELSE LET r == InsertRecord(T, Head(lst))
       IN IF r.err # "none" THEN r ELSE BuildTree(r.tree, Tail(lst))

\* tree.keys() of the node at c, as the paths of the children
Keys(T, c) == {q \in DOMAIN T : Len(q) = Len(c) + 1 /\ IsPrefixOf(c, q)}

\* the descent without the isinstance(val, dict) test
RECURSIVE DescendIntoFile(_, _)
DescendIntoFile(T, c) ==
  LET keys == Keys(T, c)
  IN IF Cardinality(keys) = 1
     THEN DescendIntoFile(T, CHOOSE q \in keys : TRUE)
     ELSE c

\* the descent with `if` for `while True`: one level at most
DescendOnce(T, c) ==
  LET keys == Keys(T, c)
  IN IF Cardinality(keys) = 1
     THEN LET key == CHOOSE q \in keys : TRUE
          IN IF T[key] = "dir" THEN key ELSE c
     ELSE c

\* the descent with len(keys) >= 1 for len(keys) == 1
RECURSIVE DescendAnyKey(_, _)
DescendAnyKey(T, c) ==
  LET keys == Keys(T, c)
  IN IF Cardinality(keys) >= 1
     THEN LET key == CHOOSE q \in keys : TRUE
          IN IF T[key] = "dir" THEN DescendAnyKey(T, key) ELSE c
     ELSE c

\* lines 372-385: the descent
RECURSIVE Descend(_, _)
Descend(T, c) ==
  LET keys == Keys(T, c)
  IN IF Cardinality(keys) = 1
     THEN LET key == CHOOSE q \in keys : TRUE
          IN IF T[key] = "dir" THEN Descend(T, key) ELSE c
     ELSE c

find_common_prefix(lst) ==
  LET b == BuildTree(EmptyTree, lst)
  IN IF b.err # "none" THEN [err |-> b.err, prefix |-> <<>>]
     ELSE [err |-> "none", prefix |-> Descend(b.tree, <<>>)]

(***************************************************************************)
(* strip_prefix_from_records.                                              *)
(***************************************************************************)
\* the loop with < for <= in the length test
RECURSIVE StripLoopStrict(_, _)
StripLoopStrict(lst, prefix_len) ==
  IF lst = <<>> THEN <<>>
  ELSE LET record == Head(lst)
           pp == record.path_parts
       IN IF Len(pp) < prefix_len
          THEN StripLoopStrict(Tail(lst), prefix_len)
          ELSE <<HashRecord(record.hash, SubSeq(pp, prefix_len + 1, Len(pp)))>>
                 \o StripLoopStrict(Tail(lst), prefix_len)

\* lines 419-424: the loop over the records
RECURSIVE StripLoop(_, _)
StripLoop(lst, prefix_len) ==
  IF lst = <<>> THEN <<>>
  ELSE LET record == Head(lst)
           pp == record.path_parts
       IN IF Len(pp) <= prefix_len
          THEN StripLoop(Tail(lst), prefix_len)
          ELSE <<HashRecord(record.hash, SubSeq(pp, prefix_len + 1, Len(pp)))>>
                 \o StripLoop(Tail(lst), prefix_len)

strip_prefix_from_records(lst) ==
  LET f == find_common_prefix(lst)
  IN IF f.err # "none" THEN [err |-> f.err, prefix |-> <<>>, list_no_prefix |-> <<>>]
     ELSE [err |-> "none", prefix |-> f.prefix,
           list_no_prefix |-> StripLoop(lst, Len(f.prefix))]

(***************************************************************************)
(* The prefix resolver applied to one listing (listing1).                  *)
(***************************************************************************)
PrefixInit ==
  /\ in1 \in ListingsUpTo(RecordsUpTo(MaxPrefixDepth), MaxPrefixLen)
  /\ in2 = <<>>
  /\ listing1 = in1
  /\ listing2 = in2
  /\ records = <<>>
  /\ i = 0
  /\ j = 0
  /\ pc = "start"
  /\ prefix = <<>>
  /\ stripped = <<>>
  /\ err = "none"
  /\ ExtIdle

\* the call find_common_prefix(listing1)
FindCommonPrefix ==
  /\ pc = "start"
  /\ LET f == find_common_prefix(listing1)
     IN /\ err' = f.err
        /\ prefix' = f.prefix
  /\ pc' = "found"
  /\ UNCHANGED <<in1, in2, listing1, listing2, records, i, j, stripped, ext>>

\* the call strip_prefix_from_records(listing1)
StripPrefix ==
  /\ pc = "start"
  /\ LET s == strip_prefix_from_records(listing1)
     IN /\ err' = s.err
        /\ prefix' = s.prefix
        /\ stripped' = s.list_no_prefix
  /\ pc' = "stripped"
  /\ UNCHANGED <<in1, in2, listing1, listing2, records, i, j, ext>>

PrefixNext == FindCommonPrefix \/ StripPrefix

SpecPrefix == PrefixInit /\ [][PrefixNext]_vars

(***************************************************************************)
(* Vocabulary of the properties.                                           *)
(***************************************************************************)
UniquePaths(l) ==
  \A a, b \in 1..Len(l) : a # b => l[a].path_parts # l[b].path_parts

PathSet(l) == {l[k].relpath : k \in 1..Len(l)}

\* the record of l at relpath p (l has unique paths and p is one of them)
RecordAt(l, p) == l[CHOOSE k \in 1..Len(l) : l[k].relpath = p]

\* the state the diff of L and R owes the path p
ExpectedState(L, R, p) ==
  IF p \in PathSet(L) /\ p \in PathSet(R)
  THEN IF RecordAt(L, p).hash = RecordAt(R, p).hash THEN "EQUAL" ELSE "DIFFERENT"
  ELSE IF p \in PathSet(L) THEN "ONLY_LEFT" ELSE "ONLY_RIGHT"

\* the orderings of the records of l
Orderings(l) ==
  {[k \in 1..Len(l) |-> l[f[k]]] :
     f \in {g \in [1..Len(l) -> 1..Len(l)] :
              \A a, b \in 1..Len(l) : a # b => g[a] # g[b]}}

DiffInputsUnique == UniquePaths(in1) /\ UniquePaths(in2)

\* C1: when compute_listing_diff returns for listings with unique paths, every
\* path of the union of the two listings has exactly one record and no other
\* path has a record.
C1_OneRecordPerPath ==
  (pc = "done" /\ DiffInputsUnique) =>
     /\ \A p \in PathSet(in1) \cup PathSet(in2) :
          Cardinality({k \in 1..Len(records) : records[k].relpath = p}) = 1
     /\ \A k \in 1..Len(records) :
          records[k].relpath \in PathSet(in1) \cup PathSet(in2)

\* C2: when compute_listing_diff returns for listings with unique paths, the
\* records are in strictly ascending order of relpath.
C2_StrictlyAscending ==
  (pc = "done" /\ DiffInputsUnique) =>
     \A k \in 1..(Len(records) - 1) :
        StrLess(records[k].relpath, records[k + 1].relpath)

\* C3: when compute_listing_diff returns for listings with unique paths, the
\* state of every record is EQUAL / DIFFERENT / ONLY_LEFT / ONLY_RIGHT exactly
\* as the membership of its path in the two listings and the two digests say.
C3_StateOfEachRecord ==
  (pc = "done" /\ DiffInputsUnique) =>
     \A k \in 1..Len(records) :
        records[k].result = ExpectedState(in1, in2, records[k].relpath)

\* C4: when compute_listing_diff returns, a path that is a directory entry on
\* one side and a file entry on the other has a record and every record of it
\* is DIFFERENT; a path that is a directory entry on both sides has a record
\* and every record of it is EQUAL.
C4_DirAgainstFile ==
  (pc = "done" /\ DiffInputsUnique) =>
     \A p \in PathSet(in1) \cap PathSet(in2) :
        LET l == RecordAt(in1, p).hash
            r == RecordAt(in2, p).hash
            recs == {k \in 1..Len(records) : records[k].relpath = p}
        IN /\ ((l = None) # (r = None)) =>
                (recs # {} /\ \A k \in recs : records[k].result = "DIFFERENT")
           /\ (l = None /\ r = None) =>
                (recs # {} /\ \A k \in recs : records[k].result = "EQUAL")

\* C5: when compute_listing_diff returns for listings with unique paths, the
\* records it returns are the records it returns for every permutation of the
\* two listings as supplied.
C5_OrderIndependent ==
  (pc = "done" /\ DiffInputsUnique) =>
     \A l \in Orderings(in1) : \A r \in Orderings(in2) :
        compute_listing_diff(l, r) = records

C5_Witness ==
  /\ pc = "done"
  /\ DiffInputsUnique
  /\ in1 # SortByPathParts(in1)
  /\ Len(in2) >= 1
  /\ \E k \in 1..Len(records) : records[k].result = "EQUAL"

(***************************************************************************)
(* Vocabulary of the prefix properties, stated on the listing itself.      *)
(***************************************************************************)
\* a record with a digest is at the path p
IsFilePath(lst, p) ==
  \E k \in 1..Len(lst) : lst[k].hash # None /\ lst[k].path_parts = p

\* a digest-less record is at the path p, or a record is strictly below p
IsDirPath(lst, p) ==
  \E k \in 1..Len(lst) :
     \/ lst[k].hash = None /\ lst[k].path_parts = p
     \/ Len(lst[k].path_parts) > Len(p) /\ IsPrefixOf(p, lst[k].path_parts)

\* some path is used both as a file and as a directory
Conflict(lst) ==
  \E k \in 1..Len(lst) : lst[k].hash # None /\ IsDirPath(lst, lst[k].path_parts)

Consistent(lst) == ~Conflict(lst)

\* the nodes of the path trie of the listing: the leading parts of its paths
TrieNodes(lst) ==
  UNION {{SubSeq(lst[k].path_parts, 1, n) : n \in 1..Len(lst[k].path_parts)} :
           k \in 1..Len(lst)}

ChildNodes(lst, c) ==
  {q \in TrieNodes(lst) : Len(q) = Len(c) + 1 /\ IsPrefixOf(c, q)}

\* the node c has exactly one child and that child is a directory node
SoleChildIsDir(lst, c) ==
  /\ Cardinality(ChildNodes(lst, c)) = 1
  /\ \A q \in ChildNodes(lst, c) : ~IsFilePath(lst, q)

\* the records strip_prefix_from_records keeps, by index, and their rank
KeptIndices(lst, n) == {k \in 1..Len(lst) : Len(lst[k].path_parts) > n}

Rank(lst, n, k) == Cardinality({m \in KeptIndices(lst, n) : m <= k})

\* C6: for a structurally consistent listing find_common_prefix returns, and
\* returns the chain from the root of the path trie through sole children that
\* are directories, ending at a node with no child, several children or a sole
\* child that is a file; so the prefix is empty for the empty listing and never
\* holds a file path.
C6_PrefixIsSoleDirChain ==
  (pc = "found" /\ Consistent(in1)) =>
     /\ err = "none"
     /\ \A n \in 0..(Len(prefix) - 1) :
          /\ SoleChildIsDir(in1, SubSeq(prefix, 1, n))
          /\ SubSeq(prefix, 1, n + 1) \in ChildNodes(in1, SubSeq(prefix, 1, n))
     /\ ~SoleChildIsDir(in1, prefix)
     /\ (in1 = <<>> => prefix = <<>>)
     /\ \A n \in 1..Len(prefix) : ~IsFilePath(in1, SubSeq(prefix, 1, n))

C6_Witness ==
  /\ pc = "found"
  /\ Consistent(in1)
  /\ Len(prefix) = 2
  /\ \E k \in 1..Len(in1) : in1[k].hash # None
  /\ \E k \in 1..Len(in1) : in1[k].hash = None

\* C7: when strip_prefix_from_records returns, the records it dropped are those
\* of at most len(prefix) segments, each of them a digest-less record whose
\* path is a leading part of the prefix; the others are kept in their order,
\* with their digest, without their first len(prefix) segments.
C7_StripDropsPrefixDirs ==
  (pc = "stripped" /\ err = "none") =>
     LET n == Len(prefix)
     IN /\ Len(stripped) = Cardinality(KeptIndices(in1, n))
        /\ \A k \in KeptIndices(in1, n) :
             LET s == stripped[Rank(in1, n, k)]
                 pp == in1[k].path_parts
             IN /\ s.hash = in1[k].hash
                /\ s.path_parts = SubSeq(pp, n + 1, Len(pp))
                /\ s.relpath = Join(SubSeq(pp, n + 1, Len(pp)))
        /\ \A k \in (1..Len(in1)) \ KeptIndices(in1, n) :
             /\ in1[k].hash = None
             /\ IsPrefixOf(in1[k].path_parts, prefix)

C7_Witness ==
  /\ pc = "stripped"
  /\ err = "none"
  /\ Len(prefix) >= 1
  /\ Len(stripped) >= 1
  /\ Len(stripped) < Len(in1)
  /\ \E k \in 1..Len(stripped) : stripped[k].hash # None

\* C8: when strip_prefix_from_records returns for a structurally consistent
\* listing, find_common_prefix of the stripped listing returns the empty prefix.
C8_StripIsIdempotent ==
  (pc = "stripped" /\ err = "none" /\ Consistent(in1)) =>
     find_common_prefix(stripped) = [err |-> "none", prefix |-> <<>>]

C8_Witness ==
  /\ pc = "stripped"
  /\ err = "none"
  /\ Consistent(in1)
  /\ Len(prefix) >= 1
  /\ Len(stripped) >= 2
  /\ find_common_prefix(stripped).prefix = <<>>

\* C9: when strip_prefix_from_records returns, every record it kept comes from
\* a record whose path starts with the prefix, and the prefix followed by the
\* kept segments is that record's path, with the same digest.
C9_PrefixRoundTrip ==
  (pc = "stripped" /\ err = "none") =>
     \A k \in KeptIndices(in1, Len(prefix)) :
        LET s == stripped[Rank(in1, Len(prefix), k)]
        IN /\ IsPrefixOf(prefix, in1[k].path_parts)
           /\ prefix \o s.path_parts = in1[k].path_parts
           /\ HashRecord(s.hash, prefix \o s.path_parts) = in1[k]

C9_Witness ==
  /\ pc = "stripped"
  /\ err = "none"
  /\ Len(prefix) = 2
  /\ Len(stripped) >= 1

\* C10: whenever the listing uses a path both as a file and as a directory,
\* find_common_prefix ends with the invalid-structure error (ValueError).
C10_ConflictIsValueError ==
  (pc = "found" /\ Conflict(in1)) => err = "ValueError"

(***************************************************************************)
(* ArchiveDiff.stats and build_diff_tree.  `records` is the records of the *)
(* ArchiveDiff.  A dict is the sequence of its items in insertion order.   *)
(***************************************************************************)
\* number of records of the ArchiveDiff handed to stats and build_diff_tree
MaxTreeRecords == 3
\* number of segments of a relpath of such a record
MaxTreeDepth == 3

\* ord('.'), the name of the root node
Dot == 46

DiffRecordsUpTo(d) == {DiffRecord(Join(p), s) : p \in PathsUpTo(d), s \in DiffState}

\* counts[record.result] = 1 for counts[record.result] += 1
RECURSIVE StatsSetsOne(_)
StatsSetsOne(recs) ==
  IF recs = <<>> THEN [s \in DiffState |-> 0]
  ELSE LET c == StatsSetsOne(SubSeq(recs, 1, Len(recs) - 1))
       IN [c EXCEPT ![recs[Len(recs)].result] = 1]

\* ArchiveDiff.stats
RECURSIVE stats(_)
stats(recs) ==
  IF recs = <<>> THEN [s \in DiffState |-> 0]
  ELSE LET c == stats(SubSeq(recs, 1, Len(recs) - 1))
       IN [c EXCEPT ![recs[Len(recs)].result] = @ + 1]

\* str.split('/')
RECURSIVE Split(_)
Split(s) ==
  IF \E k \in 1..Len(s) : s[k] = Slash
  THEN LET k == CHOOSE n \in 1..Len(s) :
                  s[n] = Slash /\ \A m \in 1..(n - 1) : s[m] # Slash
       IN <<SubSeq(s, 1, k - 1)>> \o Split(SubSeq(s, k + 1, Len(s)))
  ELSE <<s>>

\* DictNode()
EmptyDictNode == [files |-> <<>>, dirs |-> <<>>]

DiffTreeFileNode(name, state) == [kind |-> "file", name |-> name, state |-> state]

\* check_equality of DiffTreeDirNode.__init__
check_equality(node) ==
  IF node.kind = "file" THEN node.state = "EQUAL" ELSE node.all_equal

\* DiffTreeDirNode.__init__ with any() for all()
DiffTreeDirNodeAny(name, children) ==
  [kind |-> "dir", name |-> name,
   all_equal |-> \E k \in 1..Len(children) : check_equality(children[k]),
   children |-> children]

\* DiffTreeDirNode.__init__
DiffTreeDirNode(name, children) ==
  [kind |-> "dir", name |-> name,
   all_equal |-> \A k \in 1..Len(children) : check_equality(children[k]),
   children |-> children]

\* to_tree_node
RECURSIVE to_tree_node(_, _)
to_tree_node(name, node) ==
  DiffTreeDirNode(name,
     [k \in 1..Len(node.dirs) |-> to_tree_node(node.dirs[k].key, node.dirs[k].node)]
       \o node.files)

\* the index of the key in archive_root.dirs, 0 when the lookup raises KeyError
DirIndex(root, part) ==
  IF \E k \in 1..Len(root.dirs) : root.dirs[k].key = part
  THEN CHOOSE k \in 1..Len(root.dirs) : root.dirs[k].key = part
  ELSE 0

\* the while loop of build_diff_tree.  The variable `directory` is 0 for
\* archive_root and k for the k-th value of archive_root.dirs; the lookup and
\* the insertion are both on archive_root.dirs, as written in the source.
RECURSIVE WalkDirs(_, _, _)
WalkDirs(root, directory, parts) ==
  IF Len(parts) > 1
  THEN LET part == Head(parts)
           k == DirIndex(root, part)
       IN IF k # 0
          THEN WalkDirs(root, k, Tail(parts))
          ELSE WalkDirs([root EXCEPT !.dirs = Append(@, [key |-> part, node |-> EmptyDictNode])],
                        Len(root.dirs) + 1, Tail(parts))
  ELSE [root |-> root, directory |-> directory, parts |-> parts]

\* the body of `for record in archive_diff.records`
InsertDiffRecord(root, record) ==
  LET w == WalkDirs(root, 0, Split(record.relpath))
      node == DiffTreeFileNode(w.parts[1], record.result)
  IN IF w.directory = 0
     THEN [w.root EXCEPT !.files = Append(@, node)]
     ELSE [w.root EXCEPT !.dirs[w.directory].node.files = Append(@, node)]

RECURSIVE BuildDictTree(_, _)
BuildDictTree(root, recs) ==
  IF recs = <<>> THEN root
  ELSE BuildDictTree(InsertDiffRecord(root, Head(recs)), Tail(recs))

build_diff_tree(recs) == to_tree_node(<<Dot>>, BuildDictTree(EmptyDictNode, recs))

TreeInit ==
  /\ records \in ListingsUpTo(DiffRecordsUpTo(MaxTreeDepth), MaxTreeRecords)
  /\ in1 = <<>>
  /\ in2 = <<>>
  /\ listing1 = <<>>
  /\ listing2 = <<>>
  /\ i = 0
  /\ j = 0
  /\ pc = "start"
  /\ prefix = <<>>
  /\ stripped = <<>>
  /\ err = "none"
  /\ ExtIdle

\* the call build_diff_tree(archive_diff)
BuildDiffTreeCall ==
  /\ pc = "start"
  /\ tree' = build_diff_tree(records)
  /\ pc' = "tree"
  /\ UNCHANGED <<in1, in2, listing1, listing2, records, i, j, prefix, stripped, err, counts, exceptTree>>

\* the call archive_diff.stats()
StatsCall ==
  /\ pc = "start"
  /\ counts' = stats(records)
  /\ pc' = "stats"
  /\ UNCHANGED <<in1, in2, listing1, listing2, records, i, j, prefix, stripped, err, tree, exceptTree>>

TreeNext == BuildDiffTreeCall \/ StatsCall

SpecTree == TreeInit /\ [][TreeNext]_vars

(***************************************************************************)
(* Vocabulary of the tree properties.                                      *)
(***************************************************************************)
\* the segments of a relpath without the last, and the last
DirPathOf(relpath) == LET p == Split(relpath) IN SubSeq(p, 1, Len(p) - 1)

FileNameOf(relpath) == LET p == Split(relpath) IN p[Len(p)]

\* the directory nodes of the tree below and including node, each with the
\* names of the directory nodes from the root down to it
RECURSIVE DirNodes(_, _)
DirNodes(node, chain) ==
  {[chain |-> chain, node |-> node]} \cup
  UNION {IF node.children[k].kind = "dir"
         THEN DirNodes(node.children[k], Append(chain, node.children[k].name))
         ELSE {} : k \in 1..Len(node.children)}

\* the states of the file nodes reachable below a directory node
RECURSIVE StatesBelow(_)
StatesBelow(node) ==
  UNION {IF node.children[k].kind = "file"
         THEN {node.children[k].state}
         ELSE StatesBelow(node.children[k]) : k \in 1..Len(node.children)}

FileChildren(node) == {k \in 1..Len(node.children) : node.children[k].kind = "file"}

\* C11: the tree build_diff_tree returns has the root name '.', and the file
\* children of the directory node reached from the root through the directory
\* names c are the records whose directory path is c: as many, with their names
\* and states; every directory path of a record is such a chain.
C11_TreeMirrorsPaths ==
  pc = "tree" =>
     /\ tree.name = <<Dot>>
     /\ \A k \in 1..Len(records) :
          \E d \in DirNodes(tree, <<>>) : d.chain = DirPathOf(records[k].relpath)
     /\ \A d \in DirNodes(tree, <<>>) :
          LET mine == {k \in 1..Len(records) : DirPathOf(records[k].relpath) = d.chain}
          IN /\ Cardinality(FileChildren(d.node)) = Cardinality(mine)
             /\ \A k \in mine : \E c \in FileChildren(d.node) :
                  /\ d.node.children[c].name = FileNameOf(records[k].relpath)
                  /\ d.node.children[c].state = records[k].result

\* C12: in the tree build_diff_tree returns, all_equal of every directory node
\* is true iff every file node below it is EQUAL, and all_equal of the root is
\* true iff stats() counts no DIFFERENT, ONLY_LEFT or ONLY_RIGHT record.
C12_AllEqualAggregates ==
  pc = "tree" =>
     /\ \A d \in DirNodes(tree, <<>>) :
          d.node.all_equal <=> (StatesBelow(d.node) \subseteq {"EQUAL"})
     /\ tree.all_equal <=>
          (/\ stats(records)["DIFFERENT"] = 0
           /\ stats(records)["ONLY_LEFT"] = 0
           /\ stats(records)["ONLY_RIGHT"] = 0)

C12_Witness ==
  /\ pc = "tree"
  /\ ~tree.all_equal
  /\ \E k \in 1..Len(tree.children) :
       /\ tree.children[k].kind = "dir"
       /\ tree.children[k].all_equal
       /\ tree.children[k].children # <<>>
  /\ \E k \in 1..Len(tree.children) :
       tree.children[k].kind = "dir" /\ ~tree.children[k].all_equal

\* C13: the mapping stats() returns has the four states as keys, each with the
\* number of records of that state, so the values sum to the number of records.
C13_StatsCountsPerState ==
  pc = "stats" =>
     /\ DOMAIN counts = DiffState
     /\ \A s \in DiffState :
          counts[s] = Cardinality({k \in 1..Len(records) : records[k].result = s})
     /\ counts["EQUAL"] + counts["DIFFERENT"] + counts["ONLY_LEFT"] + counts["ONLY_RIGHT"]
          = Len(records)

C13_Witness ==
  /\ pc = "stats"
  /\ counts["EQUAL"] = 2
  /\ counts["ONLY_LEFT"] = 1

(***************************************************************************)
(* FileHasher.compute_hash.  A stream is a finite sequence of bytes; read  *)
(* returns at least one byte and at most the number requested while bytes  *)
(* remain, and nothing at the end.  The digest object is a byte-wise       *)
(* rolling sum of 8 bits, so that the order, the number and the values of  *)
(* the bytes fed all change the result.                                    *)
(***************************************************************************)
\* number of bytes of a stream
MaxStreamLen == 3
\* largest hash_buffer_size
MaxBufferSize == 3

\* the byte values of the streams
Bytes == {0, 1, 255}

StreamsUpTo(n) == UNION {[1..m -> Bytes] : m \in 0..n}

\* the state of a digest object just made by hashlib.new
NewDigest == 7

\* update that takes in the first byte of the chunk only
UpdateFirstByte(h, data) ==
  IF data = <<>> THEN h
  ELSE (h * 31 + data[1] + 1) % 256

\* digest.update(data): the bytes of data in order
RECURSIVE update(_, _)
update(h, data) ==
  IF data = <<>> THEN h
  ELSE update((h * 31 + data[1] + 1) % 256, Tail(data))

\* the lower-case hexadecimal digit of a value below 16
HexDigit(v) == IF v < 10 THEN 48 + v ELSE 87 + v

\* digest.hexdigest()
hexdigest(h) == <<HexDigit(h \div 16), HexDigit(h % 16)>>

Min(a, b) == IF a < b THEN a ELSE b

\* a FileHasher as constructed (the two fields are stored, nothing is looked
\* up) and the stream handed to compute_hash
HashInit ==
  /\ algo_ok \in BOOLEAN
  /\ hash_buffer_size \in 1..MaxBufferSize
  /\ stream \in StreamsUpTo(MaxStreamLen)
  /\ pos = 0
  /\ digest = 0
  /\ fed = <<>>
  /\ reads = <<>>
  /\ hexd = <<>>
  /\ pc = "start"
  /\ err = "none"
  /\ DiffIdle
  /\ TreeIdle
  /\ ImplIdle
  /\ LstIdle
  /\ MoreIdle

\* line 32: hashlib.new raises ValueError for a name it does not know
HashNew ==
  /\ pc = "start"
  /\ IF algo_ok
     THEN /\ digest' = NewDigest
          /\ pc' = "read"
          /\ err' = err
     ELSE /\ digest' = digest
          /\ pc' = "done"
          /\ err' = "ValueError"
  /\ UNCHANGED <<algo_ok, hash_buffer_size, stream, pos, fed, reads, hexd>>
  /\ UNCHANGED <<diffVars, exceptHash>>

\* lines 34-37: read returned data, which goes to the digest
HashReadData ==
  /\ pc = "read"
  /\ pos < Len(stream)
  /\ \E n \in 1..Min(hash_buffer_size, Len(stream) - pos) :
       LET data == SubSeq(stream, pos + 1, pos + n)
       IN /\ digest' = update(digest, data)
          /\ fed' = fed \o data
          /\ reads' = Append(reads, n)
          /\ pos' = pos + n
  /\ UNCHANGED <<algo_ok, hash_buffer_size, stream, hexd, pc, err>>
  /\ UNCHANGED <<diffVars, exceptHash>>

\* lines 34-36 and 38: read returned nothing; break and return the hex digest
HashReadEnd ==
  /\ pc = "read"
  /\ pos = Len(stream)
  /\ reads' = Append(reads, 0)
  /\ hexd' = hexdigest(digest)
  /\ pc' = "done"
  /\ UNCHANGED <<algo_ok, hash_buffer_size, stream, pos, digest, fed, err>>
  /\ UNCHANGED <<diffVars, exceptHash>>

HashNext == HashNew \/ HashReadData \/ HashReadEnd

SpecHash == HashInit /\ [][HashNext]_vars

(***************************************************************************)
(* Vocabulary of the hashing claim.                                        *)
(***************************************************************************)
\* the digest of a byte sequence taken in one piece, byte by byte
RECURSIVE DigestOfBytes(_, _)
DigestOfBytes(h, bytes) ==
  IF bytes = <<>> THEN h
  ELSE DigestOfBytes((h * 31 + bytes[1] + 1) % 256, Tail(bytes))

\* C16: every read of compute_hash returns at most hash_buffer_size bytes
\* (the number it asked for), the loop ends only when a read returns nothing
\* at the end of the stream, the bytes fed to the digest are the bytes of the
\* stream, once each and in order, and the hex digest returned is the one of
\* the byte sequence, whatever the buffer size and the chunks read
C16_DigestOfWholeStream ==
  /\ \A k \in 1..Len(reads) : reads[k] <= hash_buffer_size
  /\ fed = SubSeq(stream, 1, pos)
  /\ (pc = "read" => digest = DigestOfBytes(NewDigest, fed))
  /\ (pc = "done" /\ err = "none" =>
        /\ pos = Len(stream)
        /\ fed = stream
        /\ reads # <<>> /\ reads[Len(reads)] = 0
        /\ \A k \in 1..(Len(reads) - 1) : reads[k] > 0
        /\ hexd = hexdigest(DigestOfBytes(NewDigest, stream)))

\* a stream of three bytes read in a chunk of two and a chunk of one
C16_Witness ==
  /\ pc = "done" /\ err = "none"
  /\ Len(stream) = 3
  /\ hash_buffer_size = 2
  /\ reads = <<2, 1, 0>>

(***************************************************************************)
(* ArchiveDiffer.compute_diff_impl(listing1, listing2).  in1 and in2 keep  *)
(* the listings as the caller supplied them.                               *)
(***************************************************************************)
\* number of records of each listing handed to compute_diff_impl
MaxImplLen == 2
\* number of segments of a path handed to compute_diff_impl
MaxImplDepth == 2

ImplRecords == {HashRecord(h, p) : h \in {None, "h1", "h2"}, p \in PathsUpTo(MaxImplDepth)}

\* what the two calls of strip_prefix_from_records leave behind, s1 and s2
\* being what the calls return or raise: an exception of the first call
\* leaves the second call out
Stripped(s1, s2, l1, l2) ==
  IF s1.err # "none"
  THEN [err |-> s1.err, prefix1 |-> <<>>, prefix2 |-> <<>>,
        listing1 |-> l1, listing2 |-> l2]
  ELSE IF s2.err # "none"
  THEN [err |-> s2.err, prefix1 |-> s1.prefix, prefix2 |-> <<>>,
        listing1 |-> s1.list_no_prefix, listing2 |-> l2]
  ELSE [err |-> "none", prefix1 |-> s1.prefix, prefix2 |-> s2.prefix,
        listing1 |-> s1.list_no_prefix, listing2 |-> s2.list_no_prefix]

\* the right listing stripped of as many segments as the left prefix has
StripRightByLeft(s1, l2) ==
  IF s1.err # "none" THEN s1
  ELSE [err |-> "none", prefix |-> s1.prefix,
        list_no_prefix |-> StripLoop(l2, Len(s1.prefix))]

\* both listings stripped of the prefix of the left one
StripBothByLeft(l1, l2) ==
  Stripped(strip_prefix_from_records(l1),
           StripRightByLeft(strip_prefix_from_records(l1), l2), l1, l2)

\* lines 475-476: the two calls of strip_prefix_from_records
StripBoth(l1, l2) ==
  Stripped(strip_prefix_from_records(l1), strip_prefix_from_records(l2), l1, l2)

\* an ArchiveDiffer with either value of keep_prefix and the two listings
ImplInit ==
  /\ keep_prefix \in BOOLEAN
  /\ in1 \in ListingsUpTo(ImplRecords, MaxImplLen)
  /\ in2 \in ListingsUpTo(ImplRecords, MaxImplLen)
  /\ listing1 = in1
  /\ listing2 = in2
  /\ records = <<>>
  /\ i = 0
  /\ j = 0
  /\ prefix = <<>>
  /\ stripped = <<>>
  /\ prefix1 = <<>>
  /\ prefix2 = <<>>
  /\ prefix_left = <<>>
  /\ prefix_right = <<>>
  /\ pc = "impl"
  /\ err = "none"
  /\ TreeIdle
  /\ HashIdle
  /\ LstIdle
  /\ MoreIdle

\* the assignments of lines 475-479, or the exception that ends the call
SetPrefixes(s) ==
  /\ err' = s.err
  /\ prefix1' = s.prefix1
  /\ prefix2' = s.prefix2
  /\ listing1' = s.listing1
  /\ listing2' = s.listing2
  /\ pc' = IF s.err = "none" THEN "diff" ELSE "done"

\* lines 473-479: the prefixes and the listings that go to the merge
ImplPrefixes ==
  /\ pc = "impl"
  /\ SetPrefixes(IF ~keep_prefix
                 THEN StripBoth(listing1, listing2)
                 ELSE [err |-> "none", prefix1 |-> <<>>, prefix2 |-> <<>>,
                       listing1 |-> listing1, listing2 |-> listing2])
  /\ UNCHANGED <<in1, in2, records, i, j, prefix, stripped>>
  /\ UNCHANGED <<keep_prefix, prefix_left, prefix_right, exceptImpl>>

\* lines 481-487: the merge (which sorts its arguments in place) and the
\* ArchiveDiff returned
ImplDiff ==
  /\ pc = "diff"
  /\ records' = compute_listing_diff(listing1, listing2)
  /\ listing1' = SortByPathParts(listing1)
  /\ listing2' = SortByPathParts(listing2)
  /\ i' = Len(listing1)
  /\ j' = Len(listing2)
  /\ prefix_left' = Join(prefix1)
  /\ prefix_right' = Join(prefix2)
  /\ pc' = "returned"
  /\ UNCHANGED <<in1, in2, prefix, stripped, err>>
  /\ UNCHANGED <<keep_prefix, prefix1, prefix2, exceptImpl>>

ImplNext == ImplPrefixes \/ ImplDiff

SpecImpl == ImplInit /\ [][ImplNext]_vars

(***************************************************************************)
(* Vocabulary of the compute_diff_impl claim.                              *)
(***************************************************************************)
\* l1 and l2 are the same listing below a common root directory of n1
\* segments in l1 and one of n2 segments in l2 (only a directory record can be
\* the root itself)
SameBelowRoots(l1, l2, n1, n2) ==
  /\ Len(l1) = Len(l2)
  /\ \A k \in 1..Len(l1) :
       LET p == l1[k].path_parts
           q == l2[k].path_parts
       IN /\ Len(p) >= n1 /\ Len(q) >= n2
          /\ (l1[k].hash # None => Len(p) > n1 /\ Len(q) > n2)
          /\ SubSeq(p, 1, n1) = SubSeq(l1[1].path_parts, 1, n1)
          /\ SubSeq(q, 1, n2) = SubSeq(l2[1].path_parts, 1, n2)
          /\ SubSeq(p, n1 + 1, Len(p)) = SubSeq(q, n2 + 1, Len(q))
          /\ l1[k].hash = l2[k].hash

SameButRootPrefix(l1, l2) ==
  \E n1, n2 \in 0..MaxImplDepth : SameBelowRoots(l1, l2, n1, n2)

\* the multiset of the records of a listing, as a function from records to counts
CountIn(l, r) == Cardinality({k \in 1..Len(l) : l[k] = r})

SameRecords(l, m) ==
  /\ Len(l) = Len(m)
  /\ \A k \in 1..Len(l) : CountIn(l, l[k]) = CountIn(m, l[k])

\* C17: without keep_prefix each listing is stripped of the prefix found in
\* that listing alone, and the ArchiveDiff names the two prefixes joined by
\* '/'; two listings that are the same below different root prefixes then
\* give EQUAL records only.  With keep_prefix the merge gets every record of
\* the caller's listings under its own path and both prefixes are ''.
C17_PrefixPerSide ==
  /\ (pc \in {"diff", "returned"} /\ ~keep_prefix =>
        /\ prefix1 = find_common_prefix(in1).prefix
        /\ prefix2 = find_common_prefix(in2).prefix
        /\ SameRecords(listing1, StripLoop(in1, Len(prefix1)))
        /\ SameRecords(listing2, StripLoop(in2, Len(prefix2))))
  /\ (pc = "returned" /\ ~keep_prefix =>
        /\ prefix_left = Join(find_common_prefix(in1).prefix)
        /\ prefix_right = Join(find_common_prefix(in2).prefix)
        /\ (SameButRootPrefix(in1, in2) =>
              /\ Len(records) = Len(listing1)
              /\ \A k \in 1..Len(records) : records[k].result = "EQUAL"))
  /\ (pc \in {"diff", "returned"} /\ keep_prefix =>
        /\ SameRecords(listing1, in1)
        /\ SameRecords(listing2, in2)
        /\ prefix1 = <<>> /\ prefix2 = <<>>)
  /\ (pc = "returned" /\ keep_prefix =>
        /\ prefix_left = <<>>
        /\ prefix_right = <<>>
        /\ {records[k].relpath : k \in 1..Len(records)}
             = {in1[k].relpath : k \in 1..Len(in1)} \cup {in2[k].relpath : k \in 1..Len(in2)})

\* two records a/a and a/a- against a-/a and a-/a-: the prefixes a and a- are
\* stripped and both records come out EQUAL
C17_Witness ==
  /\ pc = "returned" /\ ~keep_prefix
  /\ Len(in1) = 2
  /\ SameButRootPrefix(in1, in2)
  /\ prefix_left = SegA /\ prefix_right = SegADash
  /\ Len(records) = 2
  /\ \A k \in 1..Len(records) : records[k].result = "EQUAL"

(***************************************************************************)
(* Paths and the file system.  A pathlib path is whether it is absolute    *)
(* and its components; a node of the file system is its list of names from *)
(* '/'.  Symbolic links are not modelled: every node is a directory or a   *)
(* regular file.                                                           *)
(***************************************************************************)
\* number of names of the deepest node of the file system
MaxFsDepth == 3
\* number of declared members of an archive
MaxMembers == 2

\* the components '.' and '..'
DotSeg == <<Dot>>
DotDot == <<Dot, Dot>>

\* the nodes a file system can have: only directories named "a" have entries
FsNodes == {n \in PathsUpTo(MaxFsDepth) : \A k \in 1..(Len(n) - 1) : n[k] = SegA}

\* the file systems: every node below '/' has a directory as its parent
FileSystems ==
  {f \in UNION {[D -> {"dir", "file"}] : D \in SUBSET FsNodes} :
     \A n \in DOMAIN f :
        Len(n) > 1 =>
          LET up == SubSeq(n, 1, Len(n) - 1)
          IN up \in DOMAIN f /\ f[up] = "dir"}

EmptyFs == [q \in {} |-> "dir"]

\* os.path.normpath on the components of an absolute path: '..' removes the
\* component before it and is dropped at '/'
RECURSIVE Normalize(_, _)
Normalize(done, parts) ==
  IF parts = <<>> THEN done
  ELSE IF Head(parts) = DotDot
       THEN Normalize(IF done = <<>> THEN <<>> ELSE SubSeq(done, 1, Len(done) - 1),
                      Tail(parts))
       ELSE IF Head(parts) = DotSeg
       THEN Normalize(done, Tail(parts))
       ELSE Normalize(Append(done, Head(parts)), Tail(parts))

\* os.path.abspath: the node a path names, seen from the working directory
AbsPath(p) == Normalize(<<>>, IF p.abs THEN p.parts ELSE cwd \o p.parts)

\* the path taken as its own parent
ParentIsSelf(p) == p

\* pathlib's parent: the last component is dropped; '/' and '.' are their
\* own parent
Parent(p) ==
  IF p.parts = <<>> THEN p
  ELSE [abs |-> p.abs, parts |-> SubSeq(p.parts, 1, Len(p.parts) - 1)]

\* os.path.join(root, name)
PathJoin(p, name) == [abs |-> p.abs, parts |-> Append(p.parts, name)]

IsDirNode(n) == n = <<>> \/ (n \in DOMAIN fs /\ fs[n] = "dir")
IsFileNode(n) == n \in DOMAIN fs /\ fs[n] = "file"

\* Path.is_dir, Path.is_file
is_dir(p) == IsDirNode(AbsPath(p))
is_file(p) == IsFileNode(AbsPath(p))

RECURSIVE CommonLen(_, _)
CommonLen(s, t) ==
  IF s = <<>> \/ t = <<>> \/ Head(s) # Head(t) THEN 0
  ELSE 1 + CommonLen(Tail(s), Tail(t))

\* os.path.relpath(p, start): both made absolute, one '..' for every
\* component of start below the common part, then the rest of p; '.' if
\* nothing is left
relpath(p, start) ==
  LET t == AbsPath(p)
      s == AbsPath(start)
      c == CommonLen(t, s)
      rel == [k \in 1..(Len(s) - c) |-> DotDot] \o SubSeq(t, c + 1, Len(t))
  IN IF rel = <<>> THEN DotSeg ELSE Join(rel)

\* utils.path_parts: the non-empty components of a relative path string
path_parts(str) == SelectSeq(Split(str), LAMBDA part : part # <<>>)

\* HashRecord.__init__ with a str as relpath
HashRecordOfStr(hash_value, str) == HashRecord(hash_value, path_parts(str))

\* the order in which the directory scan reports names: by name, up or down
RECURSIVE ScanOrder(_, _)
ScanOrder(names, down) ==
  IF names = {} THEN <<>>
  ELSE LET first == CHOOSE n \in names :
                      \A m \in names \ {n} :
                         IF down THEN StrLess(m, n) ELSE StrLess(n, m)
       IN <<first>> \o ScanOrder(names \ {first}, down)

\* the names of the entries of a kind in directory node d
NamesIn(d, kind) ==
  {n[Len(n)] : n \in {m \in DOMAIN fs :
                        Len(m) = Len(d) + 1 /\ IsPrefixOf(d, m) /\ fs[m] = kind}}

(***************************************************************************)
(* The format handlers.  What a handler yields is a sequence of items: the *)
(* name handed to HashRecord, whether the entry is hashed, its content.    *)
(***************************************************************************)
\* the formats a file can be recognised as
Formats == {"zip", "tar", "7z"}

MemberKinds == {"dir", "file", "symlink", "special"}
MemberNames == {SegA, Join(<<SegA, SegADash>>)}
Contents == {"c1", "c2"}

\* the declared members of an archive
Members == [name : MemberNames, kind : MemberKinds, content : Contents]

\* FileHasher.compute_hash on a content, once the algorithm is known: the
\* hex digest is a function of the bytes
compute_file_hash(content) == IF content = "c1" THEN "h1" ELSE "h2"

Item(name, hashed, content) == [name |-> name, hashed |-> hashed, content |-> content]

\* ZipInfo.filename: the name of a directory entry ends with '/'
ZipFilename(m) == IF m.kind = "dir" THEN m.name \o <<Slash>> ELSE m.name

\* ZipInfo.is_dir()
ZipIsDir(filename) == filename # <<>> /\ filename[Len(filename)] = Slash

\* lines 111-117: the items of ZipArchiveHandler
ZipItems == [k \in 1..Len(members) |->
               LET filename == ZipFilename(members[k])
               IN Item(filename, ~ZipIsDir(filename), members[k].content)]

\* lines 133-139: the items of TarArchiveHandler; TarInfo.isfile() holds of
\* regular files only
TarItems == [k \in 1..Len(members) |->
               Item(members[k].name, members[k].kind = "file", members[k].content)]

\* lines 191-196: the items of SevenZipArchiveHandler
SevenZipItems == [k \in 1..Len(members) |->
                    Item(members[k].name, ~(members[k].kind = "dir"), members[k].content)]

\* the content of the regular files of the file system
FileContent == "c1"

\* lines 160-168: os.walk from the lexical path top, top-down; per directory
\* the records of its sub-directories, then of its files, all relative to
\* archive_root
RECURSIVE WalkItems(_, _)
RECURSIVE WalkEach(_, _, _)
WalkItems(top, archive_root) ==
  LET d == AbsPath(top)
      dirs == ScanOrder(NamesIn(d, "dir"), scan_down)
      files == ScanOrder(NamesIn(d, "file"), scan_down)
  IN [k \in 1..Len(dirs) |->
        Item(relpath(PathJoin(top, dirs[k]), archive_root), FALSE, FileContent)]
     \o [k \in 1..Len(files) |->
        Item(relpath(PathJoin(top, files[k]), archive_root), TRUE, FileContent)]
     \o WalkEach(top, dirs, archive_root)

WalkEach(top, dirs, archive_root) ==
  IF dirs = <<>> THEN <<>>
  ELSE WalkItems(PathJoin(top, Head(dirs)), archive_root)
         \o WalkEach(top, Tail(dirs), archive_root)

\* lines 156-168: the items of DirArchiveHandler
DirItems ==
  LET archive_root == Parent(path)
  IN <<Item(relpath(path, archive_root), FALSE, FileContent)>>
       \o WalkItems(path, archive_root)

ItemsOf(h) ==
  IF h = "zip" THEN ZipItems
  ELSE IF h = "tar" THEN TarItems
  ELSE IF h = "dir" THEN DirItems
  ELSE SevenZipItems

\* check_file of the four handlers
check_file(h) ==
  IF h = "dir" THEN is_dir(path)
  ELSE is_file(path) /\ h \in sigs

\* a listing that starts without the check
ListingCheckSkipped(h) == TRUE

\* lines 107, 129, 151, 185: the test at the head of compute_listing
ListingCheck(h) == check_file(h)

\* the handlers in the order checked first
FormatHandlersReversed(with7z) ==
  IF with7z THEN <<"7z", "dir", "tar", "zip">> ELSE <<"dir", "tar", "zip">>

\* lines 209-217 (and archive_diff.py 433-441): self._format_handlers
format_handlers(with7z) ==
  IF with7z THEN <<"zip", "tar", "dir", "7z">> ELSE <<"zip", "tar", "dir">>

(***************************************************************************)
(* Construction, the two dispatch loops and the listing generators.        *)
(* compute_listing of a format handler is a generator: its body, the check *)
(* included, runs when the caller asks for the first record.               *)
(***************************************************************************)
\* the paths handed in: '/', the nodes of the file system, a name that may
\* be missing, a name relative to the working directory, '.' and '..'
PathForms(f) ==
  {[abs |-> TRUE, parts |-> n] : n \in DOMAIN f \cup {<<>>, <<SegA>>}}
    \cup {[abs |-> FALSE, parts |-> <<n>>] : n \in Segs}
    \cup {[abs |-> FALSE, parts |-> <<>>], [abs |-> FALSE, parts |-> <<DotDot>>]}

\* a file at /a that may be an archive of several formats at once, or any
\* file system with a path into it; nothing constructed yet
LstInit ==
  /\ have7z \in BOOLEAN
  /\ algo_ok \in BOOLEAN
  /\ \/ /\ fs = (<<SegA>> :> "file")
        /\ cwd = <<>>
        /\ path = [abs |-> TRUE, parts |-> <<SegA>>]
        /\ sigs \in SUBSET Formats
        /\ members \in ListingsUpTo(Members, MaxMembers)
        /\ scan_down = FALSE
     \/ /\ fs \in FileSystems
        /\ cwd \in {n \in DOMAIN fs \cup {<<>>} : Len(n) <= 1 /\ (n = <<>> \/ fs[n] = "dir")}
        /\ path \in PathForms(fs)
        /\ sigs = {}
        /\ members = <<>>
        /\ scan_down \in BOOLEAN
  /\ mode = "none"
  /\ handler = "none"
  /\ hidx = 0
  /\ checked = <<>>
  /\ consulted = <<>>
  /\ opened = FALSE
  /\ hashes = 0
  /\ pending = <<>>
  /\ out = <<>>
  /\ hash_listing = <<>>
  /\ hash_buffer_size = 1
  /\ stream = <<>>
  /\ pos = 0
  /\ digest = 0
  /\ fed = <<>>
  /\ reads = <<>>
  /\ hexd = <<>>
  /\ pc = "new"
  /\ err = "none"
  /\ DiffIdle
  /\ TreeIdle
  /\ ImplIdle
  /\ MoreIdle

world == <<have7z, fs, cwd, sigs, members, scan_down>>

\* FileHasher.__init__, ArchiveFormatHandler.__init__,
\* DispatchingArchiveHandler.__init__, ArchiveDiffer.__init__: the arguments
\* are stored and the handlers are made; the algorithm name is not looked up
Construct ==
  /\ pc = "new"
  /\ pc' = "ready"
  /\ UNCHANGED <<err, diffVars, hashVars, exceptLst>>
  /\ UNCHANGED <<world, path, mode, handler, hidx, checked, consulted, opened,
                 hashes, pending, out, hash_listing>>

\* DispatchingArchiveHandler.compute_listing(path) is called
EnterDispatch ==
  /\ pc = "ready"
  /\ mode' = "dispatch"
  /\ hidx' = 1
  /\ pc' = "dispatch"
  /\ UNCHANGED <<err, diffVars, hashVars, exceptLst>>
  /\ UNCHANGED <<world, path, handler, checked, consulted, opened, hashes,
                 pending, out, hash_listing>>

\* ArchiveDiffer.compute_hash_listing(in_file) is called; line 460 makes the
\* path absolute and fails if nothing is there
EnterDiffer ==
  /\ pc = "ready"
  /\ mode' = "differ"
  /\ IF is_dir(path) \/ is_file(path)
     THEN /\ path' = [abs |-> TRUE, parts |-> AbsPath(path)]
          /\ hidx' = 1
          /\ pc' = "dispatch"
          /\ err' = err
     ELSE /\ path' = path
          /\ hidx' = hidx
          /\ pc' = "done"
          /\ err' = "FileNotFoundError"
  /\ UNCHANGED <<diffVars, hashVars, exceptLst>>
  /\ UNCHANGED <<world, handler, checked, consulted, opened, hashes, pending,
                 out, hash_listing>>

\* compute_listing(path) of one format handler is called: a generator is made
EnterDirect(h) ==
  /\ pc = "ready"
  /\ \E k \in 1..Len(format_handlers(have7z)) : format_handlers(have7z)[k] = h
  /\ mode' = "direct"
  /\ handler' = h
  /\ consulted' = Append(consulted, h)
  /\ pc' = "gen"
  /\ UNCHANGED <<err, diffVars, hashVars, exceptLst>>
  /\ UNCHANGED <<world, path, hidx, checked, opened, hashes, pending, out,
                 hash_listing>>

\* lines 228-230 and 242-243 (archive_diff.py 453-455): the handler under
\* the loop accepts the path; its compute_listing is called
CheckHandlerMatch ==
  /\ pc = "dispatch"
  /\ hidx <= Len(format_handlers(have7z))
  /\ LET h == format_handlers(have7z)[hidx]
     IN /\ check_file(h)
        /\ checked' = Append(checked, h)
        /\ handler' = h
        /\ consulted' = Append(consulted, h)
  /\ pc' = "gen"
  /\ UNCHANGED <<err, diffVars, hashVars, exceptLst>>
  /\ UNCHANGED <<world, path, mode, hidx, opened, hashes, pending, out,
                 hash_listing>>

\* lines 228-229: the handler under the loop does not accept the path
CheckHandlerNoMatch ==
  /\ pc = "dispatch"
  /\ hidx <= Len(format_handlers(have7z))
  /\ LET h == format_handlers(have7z)[hidx]
     IN /\ ~check_file(h)
        /\ checked' = Append(checked, h)
  /\ hidx' = hidx + 1
  /\ UNCHANGED <<pc, err, diffVars, hashVars, exceptLst>>
  /\ UNCHANGED <<world, path, mode, handler, consulted, opened, hashes,
                 pending, out, hash_listing>>

\* line 232 (archive_diff.py 457): the loop has ended without a handler
NoHandler ==
  /\ pc = "dispatch"
  /\ hidx > Len(format_handlers(have7z))
  /\ err' = "ArchiveFormatError"
  /\ pc' = "done"
  /\ UNCHANGED <<diffVars, hashVars, exceptLst>>
  /\ UNCHANGED <<world, path, mode, handler, hidx, checked, consulted, opened,
                 hashes, pending, out, hash_listing>>

\* the first record is asked for: the check at the head of compute_listing,
\* then the archive is opened (the directory walk is started)
GenStart ==
  /\ pc = "gen"
  /\ checked' = Append(checked, handler)
  /\ IF ListingCheck(handler)
     THEN /\ opened' = TRUE
          /\ pending' = ItemsOf(handler)
          /\ pc' = "iter"
          /\ err' = err
     ELSE /\ opened' = opened
          /\ pending' = pending
          /\ pc' = "done"
          /\ err' = "ArchiveFormatError"
  /\ UNCHANGED <<diffVars, hashVars, exceptLst>>
  /\ UNCHANGED <<world, path, mode, handler, hidx, consulted, hashes, out,
                 hash_listing>>

\* the next entry: hashed (hashlib.new fails on an unknown algorithm name)
\* or not, then yielded as a HashRecord
YieldItem ==
  /\ pc = "iter"
  /\ pending # <<>>
  /\ LET item == Head(pending)
     IN IF item.hashed
        THEN /\ hashes' = hashes + 1
             /\ IF algo_ok
                THEN /\ out' = Append(out, HashRecordOfStr(compute_file_hash(item.content),
                                                          item.name))
                     /\ pending' = Tail(pending)
                     /\ UNCHANGED <<pc, err>>
                ELSE /\ err' = "ValueError"
                     /\ pc' = "done"
                     /\ UNCHANGED <<out, pending>>
        ELSE /\ out' = Append(out, HashRecordOfStr(None, item.name))
             /\ pending' = Tail(pending)
             /\ UNCHANGED <<pc, err, hashes>>
  /\ UNCHANGED <<diffVars, hashVars, exceptLst>>
  /\ UNCHANGED <<world, path, mode, handler, hidx, checked, consulted, opened,
                 hash_listing>>

\* the generator is exhausted; archive_diff.py line 462 keeps the records
\* that have a digest
Exhausted ==
  /\ pc = "iter"
  /\ pending = <<>>
  /\ pc' = "done"
  /\ hash_listing' = IF mode = "differ"
                     THEN SelectSeq(out, LAMBDA x : x.hash # None)
                     ELSE hash_listing
  /\ UNCHANGED <<err, diffVars, hashVars, exceptLst>>
  /\ UNCHANGED <<world, path, mode, handler, hidx, checked, consulted, opened,
                 hashes, pending, out>>

LstNext ==
  \/ Construct
  \/ EnterDispatch
  \/ EnterDiffer
  \/ \E h \in {"zip", "tar", "dir", "7z"} : EnterDirect(h)
  \/ CheckHandlerMatch
  \/ CheckHandlerNoMatch
  \/ NoHandler
  \/ GenStart
  \/ YieldItem
  \/ Exhausted

SpecListing == LstInit /\ [][LstNext]_vars

(***************************************************************************)
(* Vocabulary of the listing claims.                                       *)
(***************************************************************************)
\* the order in which DispatchingArchiveHandler and ArchiveDiffer list their
\* handlers, the 7z handler only where py7zr is there
DeclaredOrder ==
  SelectSeq(<<"zip", "tar", "dir", "7z">>, LAMBDA h : h = "7z" => have7z)

\* the positions of the handlers that accept the path
Matching == {k \in 1..Len(DeclaredOrder) : check_file(DeclaredOrder[k])}

FirstMatching == CHOOSE k \in Matching : \A m \in Matching : k <= m

\* the canonical path of what handler h yields at position k
YieldedPath(h, k) == Join(path_parts(ItemsOf(h)[k].name))

\* the nodes of the file system below node n
Below(n) == {m \in DOMAIN fs : Len(m) > Len(n) /\ IsPrefixOf(n, m)}

\* the name of the directory at node n ('/' has none)
NameOf(n) == IF n = <<>> THEN <<>> ELSE n[Len(n)]

\* the listing of the directory at node n as the claim describes it: the root
\* under its own name, every node below it once under the root's name
IsListingOfDir(n) ==
  /\ Len(out) = 1 + Cardinality(Below(n))
  /\ \E k \in 1..Len(out) : out[k] = HashRecord(None, <<NameOf(n)>>)
  /\ \A m \in Below(n) :
       \E k \in 1..Len(out) :
          /\ out[k].path_parts = <<NameOf(n)>> \o SubSeq(m, Len(n) + 1, Len(m))
          /\ (out[k].hash = None <=> fs[m] = "dir")
  /\ \A k \in 1..Len(out) : out[k].path_parts[1] = NameOf(n)

\* C14: the dispatch loops (of DispatchingArchiveHandler and of ArchiveDiffer)
\* check the handlers in the order zip, tar, dir, 7z and stop at the first
\* that accepts the path: that handler, a function of the input, is the only
\* one whose compute_listing is called and the records are its records; if
\* none accepts the path the call ends with ArchiveFormatError and without
\* a listing
C14_FirstMatchWins ==
  (mode \in {"dispatch", "differ"} /\ pc \in {"gen", "iter", "done"}
     /\ err # "FileNotFoundError") =>
    IF Matching = {}
    THEN /\ pc = "done" /\ err = "ArchiveFormatError"
         /\ checked = DeclaredOrder
         /\ handler = "none" /\ consulted = <<>>
         /\ ~opened /\ out = <<>> /\ hash_listing = <<>>
    ELSE /\ handler = DeclaredOrder[FirstMatching]
         /\ consulted = <<handler>>
         /\ Len(checked) >= FirstMatching
         /\ SubSeq(checked, 1, FirstMatching) = SubSeq(DeclaredOrder, 1, FirstMatching)
         /\ \A k \in (FirstMatching + 1)..Len(checked) : checked[k] = handler
         /\ Len(out) <= Len(ItemsOf(handler))
         /\ \A k \in 1..Len(out) : out[k].relpath = YieldedPath(handler, k)
         /\ (pc = "done" /\ err = "none" => Len(out) = Len(ItemsOf(handler)))

\* a file that is a zip and a tar archive at once is listed by the zip handler
C14_Witness ==
  /\ mode = "dispatch" /\ pc = "done" /\ err = "none"
  /\ {"zip", "tar"} \subseteq sigs
  /\ handler = "zip"
  /\ Len(out) = 2

\* C15: with an algorithm name that hashlib does not know the construction
\* fails (ValueError), so that no handler is checked, no archive is opened
\* and nothing is hashed
C15_UnknownAlgorithmRejectedAtConstruction ==
  (~algo_ok /\ pc # "new") =>
    /\ err = "ValueError"
    /\ checked = <<>>
    /\ ~opened
    /\ hashes = 0

\* C18: the zip, tar and 7z handlers yield one record per declared member,
\* in order; the record of a directory member has no digest and the record
\* of any other member (regular file, symlink, special file) has the digest
\* of its content
C18_EveryNonDirMemberHashed ==
  (handler \in Formats /\ pc = "done" /\ err = "none") =>
    /\ Len(out) = Len(members)
    /\ \A k \in 1..Len(out) :
         /\ out[k].relpath = members[k].name
         /\ (members[k].kind = "dir" => out[k].hash = None)
         /\ (members[k].kind # "dir" => out[k].hash = compute_file_hash(members[k].content))

\* C19: compute_listing of a format handler on a path that its check_file
\* rejects yields no record, opens nothing and hashes nothing, and ends with
\* ArchiveFormatError
C19_RejectedPathIsFormatError ==
  (mode = "direct" /\ ~check_file(handler)) =>
    /\ pc \in {"gen", "done"}
    /\ (pc = "done" => err = "ArchiveFormatError")
    /\ out = <<>>
    /\ pending = <<>>
    /\ ~opened
    /\ hashes = 0

\* the zip handler on a tar archive with members
C19_Witness ==
  /\ mode = "direct" /\ handler = "zip"
  /\ sigs = {"tar"} /\ members # <<>>
  /\ pc = "done" /\ err = "ArchiveFormatError"

\* C20 as stated: the listing of any directory has the root once under its
\* own name, every nested directory once without a digest and every nested
\* file once with a digest, all under the root's name as first segment
C20_DirListingUnderRootName ==
  (handler = "dir" /\ pc = "done" /\ err = "none") =>
    IsListingOfDir(AbsPath(path))

\* the last component of the path is the name of the directory it names
EndsInOwnName(p) ==
  /\ p.parts # <<>>
  /\ p.parts[Len(p.parts)] # DotDot
  /\ p.parts[Len(p.parts)] # DotSeg

\* C20 amended: the same for a directory given by a path that ends in the
\* directory's own name (not the file-system root, not '.' or '..')
C20_DirListingOfNamedRoot ==
  (handler = "dir" /\ pc = "done" /\ err = "none" /\ EndsInOwnName(path)) =>
    IsListingOfDir(AbsPath(path))

\* the directory /a with a sub-directory and two files, one of them nested
C20_Witness ==
  /\ handler = "dir" /\ mode = "direct" /\ pc = "done" /\ err = "none"
  /\ path = [abs |-> TRUE, parts |-> <<SegA>>]
  /\ Len(out) = 4
  /\ Cardinality({k \in 1..Len(out) : out[k].hash # None}) = 2
  /\ \E k \in 1..Len(out) : Len(out[k].path_parts) = 3


(***************************************************************************)
(* The two orders of compute_listing_diff and what the call does to its    *)
(* arguments.                                                              *)
(***************************************************************************)
\* the records of both listings handed to compute_listing_diff
InputRecords == {in1[k] : k \in 1..Len(in1)} \cup {in2[k] : k \in 1..Len(in2)}

\* C21: once compute_listing_diff has sorted its listings, for every two
\* records handed to it the order of the sort (list comparison of path_parts)
\* and the order of the merge (str comparison of relpath) agree:
\* path_parts(p) < path_parts(q) exactly when relpath(p) < relpath(q).
C21_SortAndMergeOrdersAgree ==
  pc # "start" =>
  \A a, b \in InputRecords :
     ListLess(a.path_parts, b.path_parts) <=> StrLess(a.relpath, b.relpath)

\* C22: once compute_listing_diff has sorted and while it merges and when it
\* has returned, the two listings of the caller hold the records they held at
\* the call, in the order they had.
C22_InputsUnchanged ==
  pc # "start" => (listing1 = in1 /\ listing2 = in2)


(***************************************************************************)
(* The diff of the swapped listings.                                       *)
(***************************************************************************)
\* a record with the two one-sided states exchanged
MirrorRecord(r) ==
  DiffRecord(r.relpath,
             IF r.result = "ONLY_LEFT" THEN "ONLY_RIGHT"
             ELSE IF r.result = "ONLY_RIGHT" THEN "ONLY_LEFT"
             ELSE r.result)

Mirror(recs) == [k \in 1..Len(recs) |-> MirrorRecord(recs[k])]

\* C27: when compute_listing_diff returns for listings L and R with unique
\* paths, compute_listing_diff(R, L) returns records for the same paths in the
\* same order, EQUAL and DIFFERENT as they are, ONLY_LEFT and ONLY_RIGHT
\* exchanged.
C27_SwapMirrors ==
  (pc = "done" /\ DiffInputsUnique) =>
     compute_listing_diff(in2, in1) = Mirror(records)

C27_Witness ==
  /\ pc = "done"
  /\ DiffInputsUnique
  /\ \E k \in 1..Len(records) : records[k].result = "ONLY_LEFT"
  /\ \E k \in 1..Len(records) : records[k].result = "ONLY_RIGHT"
  /\ Len(records) = MaxRecords


(***************************************************************************)
(* find_common_prefix against the pairwise reference.                      *)
(***************************************************************************)
\* the leading parts two sequences share, as the loop over zip(a, b) with
\* its break collects them
RECURSIVE ZipPrefix(_, _)
ZipPrefix(a, b) ==
  IF a = <<>> \/ b = <<>> \/ Head(a) # Head(b) THEN <<>>
  ELSE <<Head(a)>> \o ZipPrefix(Tail(a), Tail(b))

\* the loop over the records of the algorithm kept as a comment in
\* find_common_prefix
RECURSIVE PairwiseLoop(_, _)
PairwiseLoop(pre, lst) ==
  IF lst = <<>> THEN pre
  ELSE IF Head(lst).hash = None THEN PairwiseLoop(pre, Tail(lst))
  ELSE LET new_prefix == ZipPrefix(pre, Head(lst).path_parts)
       IN IF Len(new_prefix) = 0 THEN <<>>
          ELSE PairwiseLoop(new_prefix, Tail(lst))

\* the algorithm kept as a comment in find_common_prefix
PairwisePrefix(lst) ==
  LET files == SelectSeq(lst, LAMBDA r : r.hash # None)
  IN IF files = <<>> THEN <<>>
     ELSE LET pp == files[1].path_parts
          IN PairwiseLoop(SubSeq(pp, 1, Len(pp) - 1), lst)

\* the parent directory of a record: its path without the last segment
ParentDir(r) == SubSeq(r.path_parts, 1, Len(r.path_parts) - 1)

\* p leads the parent directory of every record of lst
LeadsAllParents(lst, p) ==
  \A k \in 1..Len(lst) : IsPrefixOf(p, ParentDir(lst[k]))

FileOnly(lst) == \A k \in 1..Len(lst) : lst[k].hash # None

\* C26: for a non-empty listing of files only in which no path is used both
\* as a file and as a directory, find_common_prefix returns the longest
\* sequence of segments that leads the parent directory of every record,
\* which is what the pairwise algorithm kept as a comment returns.
C26_PrefixIsLongestCommonParent ==
  (pc = "found" /\ in1 # <<>> /\ FileOnly(in1) /\ Consistent(in1)) =>
     /\ err = "none"
     /\ LeadsAllParents(in1, prefix)
     /\ \A k \in 1..Len(in1) :
          \A n \in (Len(prefix) + 1)..Len(ParentDir(in1[k])) :
             ~LeadsAllParents(in1, SubSeq(ParentDir(in1[k]), 1, n))
     /\ prefix = PairwisePrefix(in1)

C26_Witness ==
  /\ pc = "found"
  /\ FileOnly(in1)
  /\ Consistent(in1)
  /\ Len(in1) = 3
  /\ Len(prefix) = 1
  /\ \E k \in 1..Len(in1) : Len(in1[k].path_parts) = 3
  /\ \E k \in 1..Len(in1) : Len(in1[k].path_parts) = 2


(***************************************************************************)
(* The merge as a single pass.  compute_listing_diff is straight-line      *)
(* sequential code: a statement that can run does run.                     *)
(***************************************************************************)
SpecMergeFair == DiffInit /\ [][Next]_vars /\ WF_vars(Next)

\* one iteration of one of the three loops has run
IsIteration == pc \in {"merge", "drain_left", "drain_right"} /\ pc' # "done"

\* what one step of the call after the sort does to the cursors, the records
\* and the listings
PassStep ==
  /\ i' >= i /\ j' >= j
  /\ pc # "start" => (listing1' = listing1 /\ listing2' = listing2)
  /\ IsIteration =>
       /\ Len(records') = Len(records) + 1
       /\ SubSeq(records', 1, Len(records)) = records
       /\ i' + j' > i + j
       /\ i' <= i + 1 /\ j' <= j + 1

\* the cursors stay within the listings; every iteration so far has appended
\* one record, so there were Len(records) of them
PassBounds ==
  /\ i \in 0..Len(listing1)
  /\ j \in 0..Len(listing2)
  /\ Len(records) <= i + j
  /\ Len(records) <= Len(in1) + Len(in2)
  /\ pc = "done" => (i = Len(listing1) /\ j = Len(listing2))

\* C24: after the sort every iteration of the three loops appends exactly one
\* record and advances at least one cursor; the cursors never decrease and
\* never exceed the length of their listing; the listings are not reordered
\* during the pass; and the call returns, after at most len(L) + len(R)
\* iterations, with i = len(L) and j = len(R).
C24_MergeIsOneTerminatingPass ==
  /\ [][PassStep]_vars
  /\ []PassBounds
  /\ <>(pc = "done")

C24_Witness ==
  /\ pc = "done"
  /\ i = 2 /\ j = 1
  /\ Len(records) = 2
  /\ listing1 # in1


(***************************************************************************)
(* compute_listing_diff of a listing and its copy, or of a listing and the *)
(* empty listing on either side.                                           *)
(***************************************************************************)
\* number of records of the listing that is diffed against its copy
MaxSelfLen == 3

SelfInit ==
  /\ \E L \in ListingsUpTo(RecordsUpTo(MaxDepth), MaxSelfLen) :
       \E other \in {"copy", "empty_right", "empty_left"} :
          /\ in1 = IF other = "empty_left" THEN <<>> ELSE L
          /\ in2 = IF other = "empty_right" THEN <<>> ELSE L
  /\ listing1 = in1
  /\ listing2 = in2
  /\ records = <<>>
  /\ i = 0
  /\ j = 0
  /\ pc = "start"
  /\ prefix = <<>>
  /\ stripped = <<>>
  /\ err = "none"
  /\ ExtIdle

SpecSelf == SelfInit /\ [][Next]_vars

\* C28: when compute_listing_diff returns for a listing L with unique paths
\* and a copy of L, it returns len(L) records, one for each record of L, and
\* every one of them is EQUAL.
C28_SelfDiffAllEqual ==
  (pc = "done" /\ in2 = in1 /\ UniquePaths(in1)) =>
     /\ Len(records) = Len(in1)
     /\ \A k \in 1..Len(records) : records[k].result = "EQUAL"
     /\ PathSet(in1) = {records[k].relpath : k \in 1..Len(records)}

C28_Witness ==
  /\ pc = "done"
  /\ in2 = in1
  /\ UniquePaths(in1)
  /\ Len(in1) = MaxSelfLen
  /\ in1 # listing1
  /\ \E k \in 1..Len(in1) : in1[k].hash = None
  /\ \E k \in 1..Len(in1) : in1[k].hash # None
  /\ \E a, b \in 1..Len(in1) : /\ ListLess(in1[a].path_parts, in1[b].path_parts)
                               /\ StrLess(in1[b].relpath, in1[a].relpath)


(***************************************************************************)
(* The file at the path replaced between the check of the dispatch loop    *)
(* and the check at the head of the generator of the handler selected.     *)
(***************************************************************************)
RaceInit == LstInit /\ is_file(path)

\* another process writes the file anew while the generator returned by the
\* dispatch loop has not been asked for its first record
FileReplaced ==
  /\ pc = "gen"
  /\ mode \in {"dispatch", "differ"}
  /\ sigs' \in (SUBSET Formats) \ {sigs}
  /\ UNCHANGED <<pc, err, diffVars, hashVars, exceptLst>>
  /\ UNCHANGED <<have7z, fs, cwd, members, scan_down, path, mode, handler,
                 hidx, checked, consulted, opened, hashes, pending, out,
                 hash_listing>>

RaceNext == LstNext \/ FileReplaced

SpecListingRace == RaceInit /\ [][RaceNext]_vars

\* C23: when a call of the dispatcher (DispatchingArchiveHandler or
\* ArchiveDiffer) has ended with ArchiveFormatError, no handler of the
\* declared list accepts the path: a handler that was selected and then
\* rejected the path at the head of its listing was followed by the next one.
C23_FallsBackToNextHandler ==
  (pc = "done" /\ mode \in {"dispatch", "differ"} /\ err = "ArchiveFormatError") =>
     Matching = {}


(***************************************************************************)
(* HashRecord.__eq__.  HashRecord is a dataclass and hash is the only name *)
(* annotated in the class body, so hash is its only field; path_parts and  *)
(* relpath are properties over attributes that __init__ sets.              *)
(***************************************************************************)
\* the fields of the dataclass, as the generated __eq__ compares them
Fields(r) == <<r.hash>>

\* the generated __eq__ of two HashRecord values
HashRecordEq(a, b) == Fields(a) = Fields(b)

\* two records made by HashRecord(hash_value, relpath)
EqInit ==
  /\ \E h \in HashInputs, p \in PathsUpTo(MaxDepth) : lhs = HashRecord(h, p)
  /\ \E h \in HashInputs, p \in PathsUpTo(MaxDepth) : rhs = HashRecord(h, p)
  /\ eq = FALSE
  /\ pc = "start"
  /\ err = "none"
  /\ DiffIdle
  /\ TreeIdle
  /\ HashIdle
  /\ ImplIdle
  /\ LstIdle
  /\ CmpIdle
  /\ PrintIdle

\* lhs == rhs
Compare ==
  /\ pc = "start"
  /\ eq' = HashRecordEq(lhs, rhs)
  /\ pc' = "done"
  /\ UNCHANGED <<lhs, rhs, err, diffVars, exceptEq>>

EqNext == Compare

SpecEq == EqInit /\ [][EqNext]_vars

\* C29: two HashRecord values compare equal exactly when they have the same
\* relpath and the same digest.
C29_EqualIffSamePathAndDigest ==
  pc = "done" => (eq <=> (lhs.relpath = rhs.relpath /\ lhs.hash = rhs.hash))


(***************************************************************************)
(* ArchiveDiffer.compute_diff: the two listings filtered by                *)
(* compute_hash_listing, then compute_diff_impl.  raw1 and raw2 are what   *)
(* the handler selected for each archive yields.                           *)
(***************************************************************************)
\* number of entries of an archive handed to compute_diff
MaxRawLen == 2

\* the listing handed on without the filter
FilterNothing(lst) == lst

\* line 462: filter(lambda x: x.hash is not None, ...)
FilterHashed(lst) == SelectSeq(lst, LAMBDA x : x.hash # None)

\* an ArchiveDiffer with either value of keep_prefix and two archives
CompareInit ==
  /\ keep_prefix \in BOOLEAN
  /\ raw1 \in ListingsUpTo(ImplRecords, MaxRawLen)
  /\ raw2 \in ListingsUpTo(ImplRecords, MaxRawLen)
  /\ in1 = <<>>
  /\ in2 = <<>>
  /\ listing1 = <<>>
  /\ listing2 = <<>>
  /\ records = <<>>
  /\ i = 0
  /\ j = 0
  /\ prefix = <<>>
  /\ stripped = <<>>
  /\ prefix1 = <<>>
  /\ prefix2 = <<>>
  /\ prefix_left = <<>>
  /\ prefix_right = <<>>
  /\ pc = "compare"
  /\ err = "none"
  /\ TreeIdle
  /\ HashIdle
  /\ LstIdle
  /\ EqIdle
  /\ PrintIdle

\* lines 490-493: the two calls of compute_hash_listing; their results are
\* the arguments of compute_diff_impl
HashListings ==
  /\ pc = "compare"
  /\ in1' = FilterHashed(raw1)
  /\ in2' = FilterHashed(raw2)
  /\ listing1' = FilterHashed(raw1)
  /\ listing2' = FilterHashed(raw2)
  /\ pc' = "impl"
  /\ UNCHANGED <<records, i, j, prefix, stripped, err, ext>>

CompareNext == HashListings \/ ImplPrefixes \/ ImplDiff

SpecCompare == CompareInit /\ [][CompareNext]_vars

\* the paths of the entries of an archive that have a digest
FilePaths(raw) ==
  {raw[k].path_parts : k \in {m \in 1..Len(raw) : raw[m].hash # None}}

\* p without the prefix that compute_diff_impl took off its side
Unprefixed(p, pre) == IF keep_prefix THEN p ELSE SubSeq(p, Len(pre) + 1, Len(p))

\* the two archives differ in directory entries only
DifferInDirsOnly == FilterHashed(raw1) = FilterHashed(raw2)

\* C25: compute_hash_listing hands on the entries that have a digest and no
\* others; when compute_diff returns, every DiffRecord is the record of a
\* file entry of one of the archives, and two archives that differ only in
\* directory entries have no record that is not EQUAL.
C25_DirectoriesLeaveNoRecord ==
  /\ pc \in {"impl", "diff", "returned"} =>
       /\ in1 = FilterHashed(raw1) /\ in2 = FilterHashed(raw2)
       /\ \A k \in 1..Len(in1) : in1[k].hash # None
       /\ \A k \in 1..Len(in2) : in2[k].hash # None
  /\ pc = "returned" =>
       /\ \A k \in 1..Len(records) :
            \/ \E p \in FilePaths(raw1) :
                  Join(Unprefixed(p, prefix1)) = records[k].relpath
            \/ \E p \in FilePaths(raw2) :
                  Join(Unprefixed(p, prefix2)) = records[k].relpath
       /\ Len(records) <= Len(FilterHashed(raw1)) + Len(FilterHashed(raw2))
       /\ DifferInDirsOnly =>
            \A k \in 1..Len(records) : records[k].result = "EQUAL"

C25_Witness ==
  /\ pc = "returned"
  /\ DifferInDirsOnly
  /\ raw1 # raw2
  /\ \E k \in 1..Len(raw1) : raw1[k].hash = None
  /\ Len(records) = 1


(***************************************************************************)
(* DiffPrinter.print_diff.  A line of output is a record of what the line  *)
(* shows: its kind, a name (a path, a prefix, a node name), a state or a   *)
(* symbol, a number (a count, a depth) and the width of its padded column. *)
(***************************************************************************)
\* number of records of each listing behind the ArchiveDiff that is printed
MaxPrintLen == 1

Line(kind, name, state, num, width) ==
  [kind |-> kind, name |-> name, state |-> state, num |-> num, width |-> width]

\* self._divider
Divider == Line("divider", <<>>, "", 0, 80)

\* lines 481-487: the ArchiveDiff of the prefixes and listings s, or the
\* exception that s carries
DiffOf(s) ==
  [err |-> s.err,
   prefix_left |-> Join(s.prefix1),
   prefix_right |-> Join(s.prefix2),
   records |-> IF s.err = "none"
               THEN compute_listing_diff(s.listing1, s.listing2) ELSE <<>>]

\* compute_diff_impl as a function of keep_prefix and its two arguments
compute_diff_impl(keep, l1, l2) ==
  DiffOf(IF ~keep THEN StripBoth(l1, l2)
         ELSE [err |-> "none", prefix1 |-> <<>>, prefix2 |-> <<>>,
               listing1 |-> l1, listing2 |-> l2])

\* lines 51-53: the defaultdict after the loop over the records
RECURSIVE CountStates(_)
CountStates(recs) ==
  IF recs = <<>> THEN [s \in {} |-> 0]
  ELSE LET c == CountStates(SubSeq(recs, 1, Len(recs) - 1))
           s == recs[Len(recs)].result
       IN IF s \in DOMAIN c THEN [c EXCEPT ![s] = @ + 1]
          ELSE [t \in DOMAIN c \cup {s} |-> IF t = s THEN 1 ELSE c[t]]

\* counts_per_state[state]: the value, 0 for a key not yet there
Count(c, s) == IF s \in DOMAIN c THEN c[s] ELSE 0

\* the defaultdict after the keys in S were read
Touched(c, S) == [t \in DOMAIN c \cup S |-> Count(c, t)]

\* sum(counts_per_state.values())
RECURSIVE SumOver(_, _)
SumOver(c, S) ==
  IF S = {} THEN 0
  ELSE LET s == CHOOSE t \in S : TRUE IN c[s] + SumOver(c, S \ {s})

\* max(counts_per_state.values()) of a dict with a key
MaxValue(c) == CHOOSE v \in {c[s] : s \in DOMAIN c} : \A s \in DOMAIN c : c[s] <= v

\* int(math.ceil(math.log10(m))) for m >= 1: the least d with 10^d >= m
RECURSIVE CeilLog10From(_, _, _)
CeilLog10From(m, d, p) == IF p >= m THEN d ELSE CeilLog10From(m, d + 1, p * 10)

CeilLog10(m) == CeilLog10From(m, 0, 1)

\* max(len(r.relpath) for r in archive_diff.records) of a non-empty list
LongestPath(recs) ==
  CHOOSE n \in {Len(recs[k].relpath) : k \in 1..Len(recs)} :
     \A k \in 1..Len(recs) : Len(recs[k].relpath) <= n

\* the order of the members of the enum DiffState
StateOrder == <<"EQUAL", "DIFFERENT", "ONLY_LEFT", "ONLY_RIGHT">>

\* lines 104-109: the loop of print_line_diff
RecordLines(recs, suppress, width) ==
  LET shown == SelectSeq(recs, LAMBDA r : ~(suppress /\ r.result = "EQUAL"))
  IN [k \in 1..Len(shown) |-> Line("record", shown[k].relpath, shown[k].result, 0, width)]

\* lines 126-142: print_tree_node, depth counting the '|   ' of the prefix
RECURSIVE TreeLines(_, _, _)
RECURSIVE ChildrenLines(_, _, _)
TreeLines(node, suppress, depth) ==
  IF node.kind = "dir"
  THEN IF ~(suppress /\ node.all_equal)
       THEN <<Line("tree_dir", node.name, IF node.all_equal THEN "=" ELSE "#", depth, 0)>>
              \o ChildrenLines(node.children, suppress, depth + 1)
       ELSE <<>>
  ELSE IF ~(suppress /\ node.state = "EQUAL")
       THEN <<Line("tree_file", node.name, node.state, depth, 0)>>
       ELSE <<>>

ChildrenLines(children, suppress, depth) ==
  IF children = <<>> THEN <<>>
  ELSE TreeLines(Head(children), suppress, depth) \o ChildrenLines(Tail(children), suppress, depth)

\* a DiffPrinter of any three flags and an ArchiveDiff that compute_diff_impl
\* returned for two listings
PrintInit ==
  /\ suppress_common_lines \in BOOLEAN
  /\ quiet \in BOOLEAN
  /\ tree_mode \in BOOLEAN
  /\ keep_prefix \in BOOLEAN
  /\ in1 \in ListingsUpTo(ImplRecords, MaxPrintLen)
  /\ in2 \in ListingsUpTo(ImplRecords, MaxPrintLen)
  /\ \E d \in {compute_diff_impl(keep_prefix, in1, in2)} :
       /\ d.err = "none"
       /\ records = d.records
       /\ prefix_left = d.prefix_left
       /\ prefix_right = d.prefix_right
  /\ listing1 = <<>>
  /\ listing2 = <<>>
  /\ i = 0
  /\ j = 0
  /\ prefix = <<>>
  /\ stripped = <<>>
  /\ prefix1 = <<>>
  /\ prefix2 = <<>>
  /\ counts_per_state = [s \in {} |-> 0]
  /\ printed = <<>>
  /\ pc = "print"
  /\ err = "none"
  /\ TreeIdle
  /\ HashIdle
  /\ LstIdle
  /\ CmpIdle
  /\ EqIdle

flags == <<suppress_common_lines, quiet, tree_mode>>

\* lines 51-53: the records counted by state
PrintCount ==
  /\ pc = "print"
  /\ counts_per_state' = CountStates(records)
  /\ pc' = IF quiet THEN "quiet" ELSE "header"
  /\ UNCHANGED <<printed, flags, err, diffVars, implVars, exceptPrint>>

\* lines 55-66: the one-line summary, written if something differs
PrintQuiet ==
  /\ pc = "quiet"
  /\ IF prefix_left # prefix_right
     THEN /\ printed' = Append(printed,
                 Line("summary", <<>>, "diff", Len(records), 0))
          /\ counts_per_state' = Touched(counts_per_state, DiffState)
     ELSE IF SumOver(counts_per_state, DOMAIN counts_per_state)
                - Count(counts_per_state, "EQUAL") > 0
     THEN /\ printed' = Append(printed,
                 Line("summary", <<>>, "same", Len(records), 0))
          /\ counts_per_state' = Touched(counts_per_state, DiffState)
     ELSE /\ printed' = printed
          /\ counts_per_state' = Touched(counts_per_state, {"EQUAL"})
  /\ pc' = "done"
  /\ UNCHANGED <<flags, err, diffVars, implVars, exceptPrint>>

\* lines 68-74: the divider and the two prefixes if they differ
PrintHeader ==
  /\ pc = "header"
  /\ printed' = printed \o <<Divider>> \o
        (IF prefix_left # prefix_right
         THEN <<Line("text", <<>>, "Prefixes differ:", 0, 0),
                Line("prefix", prefix_left, "Prefix 1:", 0, 0),
                Line("prefix", prefix_right, "Prefix 2:", 0, 0),
                Divider>>
         ELSE <<>>)
  /\ pc' = "body"
  /\ UNCHANGED <<counts_per_state, flags, err, diffVars, implVars, exceptPrint>>

\* lines 76-79: print_diff_tree or print_line_diff; max() of no record raises
PrintBody ==
  /\ pc = "body"
  /\ IF tree_mode
     THEN /\ printed' = printed \o
                TreeLines(build_diff_tree(records), suppress_common_lines, 0)
          /\ pc' = "footer"
          /\ err' = err
     ELSE IF records = <<>>
     THEN /\ printed' = printed
          /\ pc' = "done"
          /\ err' = "ValueError"
     ELSE /\ printed' = printed \o
                RecordLines(records, suppress_common_lines, LongestPath(records))
          /\ pc' = "footer"
          /\ err' = err
  /\ UNCHANGED <<counts_per_state, flags, diffVars, implVars, exceptPrint>>

\* lines 81-89: the divider, the width of the counts (max() of no value
\* raises), a line for each state, the divider
PrintFooter ==
  /\ pc = "footer"
  /\ IF DOMAIN counts_per_state = {}
     THEN /\ printed' = Append(printed, Divider)
          /\ counts_per_state' = counts_per_state
          /\ err' = "ValueError"
     ELSE /\ printed' = printed \o <<Divider>> \o
                [k \in 1..Len(StateOrder) |->
                   Line("count", <<>>, StateOrder[k],
                        Count(counts_per_state, StateOrder[k]),
                        CeilLog10(MaxValue(counts_per_state)))]
                \o <<Divider>>
          /\ counts_per_state' = Touched(counts_per_state, DiffState)
          /\ err' = err
  /\ pc' = "done"
  /\ UNCHANGED <<flags, diffVars, implVars, exceptPrint>>

PrintNext == PrintCount \/ PrintQuiet \/ PrintHeader \/ PrintBody \/ PrintFooter

SpecPrint == PrintInit /\ [][PrintNext]_vars

\* C30: print_diff ends without raising for every ArchiveDiff that the
\* differ returns, one without records included, whatever the flags.
C30_PrintDiffNeverRaises ==
  pc = "done" => err = "none"

====
